---- MODULE Spec2Model ----
(***************************************************************************)
(* A model of electrum/address_synchronizer.py (class AddressSynchronizer):*)
(* the wallet's transaction index (transactions, txi, txo, spent_outpoints,*)
(* _history_local), the server history per address, and the verified /     *)
(* unverified maps, with one action per public method.                     *)
(*                                                                         *)
(* Python dicts are functions whose DOMAIN is the set of keys present, so  *)
(* that the keys a defaultdict creates on a mere read are part of the      *)
(* state.  A transaction body is a function of its txid (the txid is the   *)
(* hash of the body), so `transactions` is modelled by its set of keys.    *)
(* An outpoint string "hash:n" is the pair <<hash, n>>.                    *)
(*                                                                         *)
(* The sequential specifications run each method as one step.  The         *)
(* concurrent ones split a method at the places where it holds no lock     *)
(* (or awaits) and keep the locals of the interrupted call in `frames`.    *)
(***************************************************************************)
EXTENDS Integers, Sequences, FiniteSets, TLC

TX_HEIGHT_LOCAL == -2
TX_HEIGHT_UNCONF_PARENT == -1
TX_HEIGHT_UNCONFIRMED == 0
\* from .bitcoin
COINBASE_MATURITY == 100

\* Python's None
None == "None"

\* The highest block height the server, the verifier and the chain speak of.
MaxHeight == 2
\* The longest address history the server reports.
MaxHistLen == 1

(***************************************************************************)
(* The universe of transactions, addresses and headers.                    *)
(***************************************************************************)
TxIn(h, n, a) == [type |-> "p2pkh", prevout_hash |-> h, prevout_n |-> n, address |-> a]
TxOut(a, v) == [type |-> "ADDRESS", address |-> a, value |-> v]
ScriptOut(v) == [type |-> "SCRIPT", address |-> None, value |-> v]

\* "X" and "Y" are transactions the wallet never sees; "Z" is never a wallet address.
TxIds == {"T1", "T2", "T3", "T4"}
Addrs == {"A", "B"}

\* T1 and T2 both spend X:0, T2 and T4 both spend Y:0, T3 spends T1's
\* output to A and pays a foreign address, as does T4.
\* T5 is a coinbase transaction that pays A; the wallet learns of it only
\* from the server.
CoinbaseTxIds == {"T5"}
CoinbaseIn == [type |-> "coinbase", prevout_hash |-> None, prevout_n |-> 0, address |-> None]

\* T6 moves the coin T1 pays to A on to B.
TransferTxIds == {"T6"}

\* T7 pays 600 to A and 400 to B; T8 spends both outputs, pays 800 to a
\* foreign address and 100 back to A: its fee is 100.
PaymentTxIds == {"T7", "T8"}

Tx ==
  [t \in TxIds \cup CoinbaseTxIds \cup TransferTxIds \cup PaymentTxIds |->
     CASE t = "T1" -> [inputs  |-> << TxIn("X", 0, None) >>,
                       outputs |-> << TxOut("Z", 1), TxOut("A", 5) >>]
       [] t = "T2" -> [inputs  |-> << TxIn("X", 0, None), TxIn("Y", 0, None) >>,
                       outputs |-> << TxOut("B", 4), ScriptOut(1) >>]
       [] t = "T3" -> [inputs  |-> << TxIn("T1", 1, None) >>,
                       outputs |-> << TxOut("Z", 4) >>]
       [] t = "T4" -> [inputs  |-> << TxIn("Y", 0, "B") >>,
                       outputs |-> << TxOut("Z", 5) >>]
       [] t = "T5" -> [inputs  |-> << CoinbaseIn >>,
                       outputs |-> << TxOut("A", 3) >>]
       [] t = "T6" -> [inputs  |-> << TxIn("T1", 1, None) >>,
                       outputs |-> << TxOut("B", 5) >>]
       [] t = "T7" -> [inputs  |-> << TxIn("X", 1, None) >>,
                       outputs |-> << TxOut("A", 600), TxOut("B", 400) >>]
       [] t = "T8" -> [inputs  |-> << TxIn("T7", 0, None), TxIn("T7", 1, None) >>,
                       outputs |-> << TxOut("Z", 800), TxOut("A", 100) >>] ]

Heights == TX_HEIGHT_UNCONF_PARENT .. MaxHeight
BlockHeights == 1 .. MaxHeight
HeaderHashes == {"H1", "H2"}

(***************************************************************************)
(* dict helpers                                                            *)
(***************************************************************************)
EmptyDict == << >>
Get(d, k, default) == IF k \in DOMAIN d THEN d[k] ELSE default
Put(d, k, v) == [x \in DOMAIN d \cup {k} |-> IF x = k THEN v ELSE d[x]]
Pop(d, k) == [x \in DOMAIN d \ {k} |-> d[x]]
Values(d) == {d[k] : k \in DOMAIN d}
\* d[k] of a defaultdict(dict): a read of a missing key stores an empty dict
Touch(d, k) == IF k \in DOMAIN d THEN d ELSE Put(d, k, EmptyDict)
RECURSIVE TouchAll(_, _)
TouchAll(d, ks) ==
  IF ks = {} THEN d
  ELSE LET k == CHOOSE x \in ks : TRUE IN TouchAll(Touch(d, k), ks \ {k})

VARIABLES
  transactions,     \* keys of self.transactions
  txi,              \* txid -> address -> set of <<outpoint, value>>
  txo,              \* txid -> address -> list of <<n, value, is_coinbase>>
  spent_outpoints,  \* prevout_hash -> prevout_n -> spending txid
  history_local,    \* self._history_local: address -> set of txid
  history,          \* address -> list of <<txid, height>>
  verified_tx,      \* txid -> [height, header_hash]
  unverified_tx,    \* txid -> height
  tx_fees,          \* txid -> fee
  cached_fee,       \* txid -> the _cached_fee of the Transaction object of txid
  last,             \* the outcome of the last call
  frames,           \* thread -> the locals of the call it is in the middle of
  threadlocal_cache,\* thread -> its local_height slot: << >> (absent or None) or <<h>>
  network           \* what self.network.get_local_height() returns now

vars == << transactions, txi, txo, spent_outpoints, history_local, history,
           verified_tx, unverified_tx, tx_fees, cached_fee, last, frames,
           threadlocal_cache, network >>

\* The threads that call into the engine (network thread, GUI thread).
Threads == {"t1", "t2"}
\* the frame of a thread that is not inside a call
Idle == [op |-> "idle"]

\* The engine's state as one value, threaded through the methods' bodies.
\* err is the exception in flight, None when there is none; marked are the
\* addresses the call has passed to _mark_address_history_changed.
Cur ==
  [transactions |-> transactions, txi |-> txi, txo |-> txo,
   spent_outpoints |-> spent_outpoints, history_local |-> history_local,
   history |-> history, verified_tx |-> verified_tx,
   unverified_tx |-> unverified_tx, tx_fees |-> tx_fees, err |-> None,
   marked |-> {}, cached_fee |-> cached_fee]

Becomes(s) ==
  /\ UNCHANGED << threadlocal_cache, network >>
  /\ transactions' = s.transactions
  /\ txi' = s.txi
  /\ txo' = s.txo
  /\ spent_outpoints' = s.spent_outpoints
  /\ history_local' = s.history_local
  /\ history' = s.history
  /\ verified_tx' = s.verified_tx
  /\ unverified_tx' = s.unverified_tx
  /\ tx_fees' = s.tx_fees
  /\ cached_fee' = s.cached_fee

(***************************************************************************)
(* Queries used by the ingest engine                                       *)
(***************************************************************************)
is_mine(s, address) == address \in DOMAIN s.history

\* get_tx_height(tx_hash).height
TxHeight(s, tx_hash) ==
  IF tx_hash \in DOMAIN s.verified_tx THEN s.verified_tx[tx_hash].height
  ELSE IF tx_hash \in DOMAIN s.unverified_tx THEN s.unverified_tx[tx_hash]
  ELSE TX_HEIGHT_LOCAL

\* the address that txo[prevout_hash] records for output prevout_n, or None
PrevOutputAddress(s, prevout_hash, prevout_n) ==
  LET dd == Get(s.txo, prevout_hash, EmptyDict)
      hits == {a \in DOMAIN dd : \E i \in 1..Len(dd[a]) : dd[a][i][1] = prevout_n}
  IN IF hits = {} THEN None ELSE CHOOSE a \in hits : TRUE

PrevOutputValue(s, prevout_hash, prevout_n) ==
  LET l == s.txo[prevout_hash][PrevOutputAddress(s, prevout_hash, prevout_n)]
      i == CHOOSE j \in 1..Len(l) : l[j][1] = prevout_n
  IN l[i][2]

get_txin_address(s, txin) ==
  IF txin.address # None /\ txin.address # "(pubkey)" THEN txin.address
  ELSE PrevOutputAddress(s, txin.prevout_hash, txin.prevout_n)

get_txout_address(o) == IF o.type = "ADDRESS" THEN o.address ELSE None

(***************************************************************************)
(* Index store: _add_tx_to_local_history, _remove_tx_from_local_history    *)
(***************************************************************************)
IndexAddrs(s, txid) ==
  DOMAIN Get(s.txi, txid, EmptyDict) \cup DOMAIN Get(s.txo, txid, EmptyDict)

add_tx_to_local_history(s, txid) ==
  LET addrs == IndexAddrs(s, txid) IN
  [s EXCEPT !.history_local =
     [a \in DOMAIN s.history_local \cup addrs |->
        IF a \in addrs THEN Get(s.history_local, a, {}) \cup {txid}
        ELSE s.history_local[a]],
            !.marked = @ \cup addrs]

remove_tx_from_local_history(s, txid) ==
  LET addrs == IndexAddrs(s, txid) IN
  [s EXCEPT !.history_local =
     [a \in DOMAIN s.history_local |->
        IF a \in addrs THEN s.history_local[a] \ {txid} ELSE s.history_local[a]]]

(***************************************************************************)
(* Ingest engine: get_conflicting_transactions                             *)
(***************************************************************************)
\* The loop over tx.inputs() from input i on.  acc = [sp, conf, err]: the
\* spent_outpoints so far (the lookups create keys), the spenders found, and
\* the failed assertion if any.
RECURSIVE ConflictScan(_, _, _, _)
ConflictScan(s, ins, i, acc) ==
  IF i > Len(ins) THEN acc
  ELSE IF ins[i].type = "coinbase" THEN ConflictScan(s, ins, i + 1, acc)
  ELSE LET sp1 == Touch(acc.sp, ins[i].prevout_hash)
           spending_tx_hash == Get(sp1[ins[i].prevout_hash], ins[i].prevout_n, None)
       IN IF spending_tx_hash = None
            THEN ConflictScan(s, ins, i + 1, [acc EXCEPT !.sp = sp1])
          ELSE IF spending_tx_hash \notin s.transactions
            THEN [sp |-> sp1, conf |-> acc.conf, err |-> "AssertionError"]
          ELSE ConflictScan(s, ins, i + 1,
                 [sp |-> sp1, conf |-> acc.conf \cup {spending_tx_hash}, err |-> None])

\* Faulty variant: only the first input is looked up.
get_conflicting_transactions_first_input(s, tx_hash) ==
  ConflictScan(s, SubSeq(Tx[tx_hash].inputs, 1, 1), 1,
               [sp |-> s.spent_outpoints, conf |-> {}, err |-> None])

\* Faulty variant: a transaction is not told apart from its conflicts.
ExcludeSelf_kept(r, tx_hash) == r

\* lines 219-224: a transaction already in the wallet conflicts with itself
ExcludeSelf(r, tx_hash) ==
  IF r.err # None THEN r
  ELSE IF tx_hash \in r.conf
    THEN IF Cardinality(r.conf) > 1
           THEN [r EXCEPT !.err = "Exception"]
           ELSE [r EXCEPT !.conf = r.conf \ {tx_hash}]
  ELSE r

\* [sp, conf, err]: conf is the returned set when err = None
get_conflicting_transactions(s, tx_hash) ==
  ExcludeSelf(ConflictScan(s, Tx[tx_hash].inputs, 1,
                           [sp |-> s.spent_outpoints, conf |-> {}, err |-> None]),
              tx_hash)

(***************************************************************************)
(* Ingest engine: remove_transaction                                       *)
(***************************************************************************)
\* spent_outpoints[prevout_hash].pop(prevout_n, None), then the empty submap
\* is dropped
PopOutpoint(sp, prevout_hash, prevout_n) ==
  LET d == Pop(Get(sp, prevout_hash, EmptyDict), prevout_n)
  IN IF DOMAIN d = {} THEN Pop(sp, prevout_hash) ELSE Put(sp, prevout_hash, d)

\* Faulty variant: the spends of a removed transaction are not undone.
PopInputs_kept(sp, ins, i) == sp

RECURSIVE PopInputs(_, _, _)
PopInputs(sp, ins, i) ==
  IF i > Len(ins) THEN sp
  ELSE IF ins[i].type = "coinbase" THEN PopInputs(sp, ins, i + 1)
  ELSE PopInputs(PopOutpoint(sp, ins[i].prevout_hash, ins[i].prevout_n), ins, i + 1)

\* the outpoints spent_outpoints records as spent by tx_hash
SpentBy(sp, tx_hash) ==
  {op \in UNION {{<<h, n>> : n \in DOMAIN sp[h]} : h \in DOMAIN sp} :
     sp[op[1]][op[2]] = tx_hash}

\* if not self.spent_outpoints[tx_hash]: self.spent_outpoints.pop(tx_hash)
DropIfUnspent(sp, tx_hash) ==
  IF DOMAIN Get(sp, tx_hash, EmptyDict) = {} THEN Pop(sp, tx_hash) ELSE sp

\* self.txi.pop(tx_hash, None); self.txo.pop(tx_hash, None)
DropIndex(s, tx_hash) ==
  [s EXCEPT !.txi = Pop(s.txi, tx_hash), !.txo = Pop(s.txo, tx_hash)]

\* remove_from_spent_outpoints when the transaction is in self.transactions
UndoSpends(s, tx_hash) ==
  [s EXCEPT !.transactions = s.transactions \ {tx_hash},
            !.spent_outpoints =
               DropIfUnspent(PopInputs(s.spent_outpoints, Tx[tx_hash].inputs, 1), tx_hash)]

\* remove_from_spent_outpoints when it is not: the scan of spent_outpoints
ScanSpends(s, tx_hash, found) ==
  IF found # {}
    THEN \* the scan pops an entry of the dict it iterates over: the next
         \* step of the iteration raises RuntimeError
         [s EXCEPT !.spent_outpoints =
                      PopOutpoint(s.spent_outpoints,
                                  (CHOOSE x \in found : TRUE)[1],
                                  (CHOOSE x \in found : TRUE)[2]),
                   !.err = "RuntimeError"]
    ELSE [s EXCEPT !.spent_outpoints = DropIfUnspent(s.spent_outpoints, tx_hash)]

\* the statements after remove_from_spent_outpoints, skipped when it raised
Unindex(s, tx_hash) ==
  IF s.err # None THEN s
  ELSE DropIndex(remove_tx_from_local_history(s, tx_hash), tx_hash)

remove_transaction(s, tx_hash) ==
  IF s.err # None THEN s
  ELSE IF tx_hash \in s.transactions
    THEN Unindex(UndoSpends(s, tx_hash), tx_hash)
    ELSE Unindex(ScanSpends(s, tx_hash, SpentBy(s.spent_outpoints, tx_hash)), tx_hash)

(***************************************************************************)
(* Ingest engine: get_depending_transactions                               *)
(***************************************************************************)
RECURSIVE Children(_, _)
Children(sp, tx_hash) ==
  LET direct == Values(Get(sp, tx_hash, EmptyDict))
  IN direct \cup UNION {Children(sp, other_hash) : other_hash \in direct}

\* [sp, children]: the lookups create the key of every transaction visited
get_depending_transactions(sp, tx_hash) ==
  LET children == Children(sp, tx_hash)
  IN [sp |-> TouchAll(sp, {tx_hash} \cup children), children |-> children]

(***************************************************************************)
(* Ingest engine: add_transaction                                          *)
(***************************************************************************)
\* for tx_hash2 in to_remove: self.remove_transaction(tx_hash2)
RECURSIVE RemoveAll(_, _)
RemoveAll(s, to_remove) ==
  IF to_remove = {} THEN s
  ELSE LET t == CHOOSE x \in to_remove : TRUE
       IN RemoveAll(remove_transaction(s, t), to_remove \ {t})

\* Faulty variant: the children of the conflicting transactions stay.
ToRemove_direct(sp, conflicting_txns) == conflicting_txns

\* to_remove: the conflicting transactions and their (grand-)children
ToRemove(sp, conflicting_txns) ==
  conflicting_txns \cup
    UNION {get_depending_transactions(sp, c).children : c \in conflicting_txns}

\* the keys the get_depending_transactions calls leave in spent_outpoints
AfterDepending(sp, conflicting_txns) ==
  TouchAll(sp, ToRemove(sp, conflicting_txns))

\* the relatedness test of add_transaction
IsRelated(s, tx_hash) ==
  LET tx == Tx[tx_hash]
      mine == \E i \in 1..Len(tx.inputs) : is_mine(s, get_txin_address(s, tx.inputs[i]))
      for_me == \E i \in 1..Len(tx.outputs) : is_mine(s, get_txout_address(tx.outputs[i]))
  IN mine \/ for_me

\* Faulty variant: the spend is recorded under the spender, not under the
\* transaction whose output is spent.
IndexInputs_under_spender(s, tx_hash, i, d) ==
  [s EXCEPT !.txi = Put(s.txi, tx_hash, d),
            !.spent_outpoints =
               Put(s.spent_outpoints, tx_hash,
                   [n \in {Tx[tx_hash].inputs[j].prevout_n :
                              j \in 1..Len(Tx[tx_hash].inputs)} |-> tx_hash])]

\* the loop "add inputs" from input i on; d is txi[tx_hash] being built
RECURSIVE IndexInputs(_, _, _, _)
IndexInputs(s, tx_hash, i, d) ==
  LET ins == Tx[tx_hash].inputs IN
  IF i > Len(ins) THEN [s EXCEPT !.txi = Put(s.txi, tx_hash, d)]
  ELSE IF ins[i].type = "coinbase" THEN IndexInputs(s, tx_hash, i + 1, d)
  ELSE
    LET prevout_hash == ins[i].prevout_hash
        prevout_n == ins[i].prevout_n
        ser == <<prevout_hash, prevout_n>>
        sp1 == Touch(s.spent_outpoints, prevout_hash)
        s1 == [s EXCEPT !.spent_outpoints =
                 Put(sp1, prevout_hash, Put(sp1[prevout_hash], prevout_n, tx_hash))]
        addr == PrevOutputAddress(s, prevout_hash, prevout_n)
        d1 == IF addr # None /\ is_mine(s, addr)
                THEN Put(d, addr, Get(d, addr, {}) \cup
                           {<<ser, PrevOutputValue(s, prevout_hash, prevout_n)>>})
                ELSE d
    IN IndexInputs(s1, tx_hash, i + 1, d1)

\* lines 346-350: the output is appended to txo[tx_hash][addr], and the
\* lookup of its spender creates spent_outpoints[tx_hash]
RecordOutput(s, tx_hash, n, addr, v, is_coinbase) ==
  [s EXCEPT !.txo = Put(s.txo, tx_hash,
                        Put(s.txo[tx_hash], addr,
                            Append(Get(s.txo[tx_hash], addr, << >>), <<n, v, is_coinbase>>))),
            !.spent_outpoints = Touch(s.spent_outpoints, tx_hash)]

\* Faulty variant: a spender that arrived first is not told of the coin.
GiveToSpender_skipped(s, next_tx, addr, coin) == s

\* lines 351-357: "give v to txi that spends me"
GiveToSpender(s, next_tx, addr, coin) ==
  IF next_tx = None THEN s
  ELSE add_tx_to_local_history(
         IF next_tx \in DOMAIN s.txi
           THEN [s EXCEPT !.txi = Put(s.txi, next_tx,
                                      Put(s.txi[next_tx], addr,
                                          Get(s.txi[next_tx], addr, {}) \cup {coin}))]
           ELSE s,
         next_tx)

\* one output that pays an address of the wallet
IndexOutput(s, tx_hash, n, addr, v) ==
  GiveToSpender(s, Get(s.spent_outpoints[tx_hash], n, None), addr, <<<<tx_hash, n>>, v>>)

\* the loop "add outputs" from output i on (output index n = i - 1)
RECURSIVE IndexOutputs(_, _, _, _)
IndexOutputs(s, tx_hash, i, is_coinbase) ==
  LET outs == Tx[tx_hash].outputs IN
  IF i > Len(outs) THEN s
  ELSE IF get_txout_address(outs[i]) # None /\ is_mine(s, get_txout_address(outs[i]))
    THEN IndexOutputs(
           IndexOutput(RecordOutput(s, tx_hash, i - 1, get_txout_address(outs[i]),
                                    outs[i].value, is_coinbase),
                       tx_hash, i - 1, get_txout_address(outs[i]), outs[i].value),
           tx_hash, i + 1, is_coinbase)
    ELSE IndexOutputs(s, tx_hash, i + 1, is_coinbase)

\* the outpoints tx_hash spends
Outpoints(tx_hash) ==
  {<<Tx[tx_hash].inputs[i].prevout_hash, Tx[tx_hash].inputs[i].prevout_n>> :
     i \in {j \in 1..Len(Tx[tx_hash].inputs) : Tx[tx_hash].inputs[j].type # "coinbase"}}

existing_mempool_txn(s, conflicting_txns) ==
  \E tx_hash2 \in conflicting_txns :
     TxHeight(s, tx_hash2) \in {TX_HEIGHT_UNCONFIRMED, TX_HEIGHT_UNCONF_PARENT}

\* Faulty variant: every conflicting transaction must be confirmed.
existing_confirmed_txn_all(s, conflicting_txns) ==
  \A tx_hash2 \in conflicting_txns : TxHeight(s, tx_hash2) > 0

existing_confirmed_txn(s, conflicting_txns) ==
  \E tx_hash2 \in conflicting_txns : TxHeight(s, tx_hash2) > 0

\* what add_transaction leaves behind: the state on return, the outcome
\* ("True", "False" or the exception raised) and the transactions evicted
Result(s, ret, removed) == [s |-> s, ret |-> ret, removed |-> removed]

\* self.txo[tx_hash] = d = {}
StartOutputs(s, tx_hash) == [s EXCEPT !.txo = Put(s.txo, tx_hash, EmptyDict)]

\* lines 364-366: "add to local history", "save"
Store(s, tx_hash) ==
  [add_tx_to_local_history(s, tx_hash) EXCEPT
     !.transactions = s.transactions \cup {tx_hash}]

\* lines 317-367, after the conflicting transactions to_remove were removed
IndexTx(s, tx_hash, to_remove) ==
  IF s.err # None THEN Result(s, s.err, to_remove)
  ELSE Result(Store(IndexOutputs(StartOutputs(IndexInputs(s, tx_hash, 1, EmptyDict),
                                              tx_hash),
                                 tx_hash, 1, Tx[tx_hash].inputs[1].type = "coinbase"),
                    tx_hash),
              "True", to_remove)

\* lines 311-316: "keep this txn and remove all conflicting"
Evict(s, conflicting_txns) ==
  RemoveAll([s EXCEPT !.spent_outpoints =
                        AfterDepending(s.spent_outpoints, conflicting_txns)],
            ToRemove(s.spent_outpoints, conflicting_txns))

\* the new transaction is dropped
DropsNew(s, tx_hash, conflicting_txns) ==
  /\ conflicting_txns # {}
  /\ \/ existing_confirmed_txn(s, conflicting_txns) /\ TxHeight(s, tx_hash) <= 0
     \/ existing_mempool_txn(s, conflicting_txns) /\ TxHeight(s, tx_hash) = TX_HEIGHT_LOCAL

\* lines 296-367; c is what get_conflicting_transactions returned or raised
\* (its lookups have created keys of spent_outpoints)
ResolveConflicts(s, tx_hash, c) ==
  IF c.err # None
    THEN Result([s EXCEPT !.spent_outpoints = c.sp, !.err = c.err], c.err, {})
  ELSE IF DropsNew(s, tx_hash, c.conf)
    THEN Result([s EXCEPT !.spent_outpoints = c.sp], "False", {})
  ELSE IndexTx(Evict([s EXCEPT !.spent_outpoints = c.sp], c.conf),
               tx_hash, ToRemove(c.sp, c.conf))

\* Faulty variant: the conflicts are looked up before the relatedness test.
add_transaction_scan_first(s, tx_hash, allow_unrelated) ==
  IF s.err # None THEN Result(s, s.err, {})
  ELSE IF ~allow_unrelated /\ ~IsRelated(s, tx_hash)
    THEN Result([s EXCEPT !.spent_outpoints = get_conflicting_transactions(s, tx_hash).sp,
                          !.err = "UnrelatedTransactionException"],
                "UnrelatedTransactionException", {})
  ELSE ResolveConflicts(s, tx_hash, get_conflicting_transactions(s, tx_hash))

add_transaction(s, tx_hash, allow_unrelated) ==
  IF s.err # None THEN Result(s, s.err, {})
  ELSE IF ~allow_unrelated /\ ~IsRelated(s, tx_hash)
    THEN Result([s EXCEPT !.err = "UnrelatedTransactionException"],
                "UnrelatedTransactionException", {})
  ELSE ResolveConflicts(s, tx_hash, get_conflicting_transactions(s, tx_hash))

(***************************************************************************)
(* Verification coordinator                                                *)
(***************************************************************************)
\* Faulty variant: a verified transaction reported at a block height is
\* written to unverified_tx as well.
add_unverified_tx_always(s, tx_hash, tx_height) ==
  IF s.err # None THEN s
  ELSE IF tx_hash \in DOMAIN s.verified_tx
            /\ tx_height \in {TX_HEIGHT_UNCONFIRMED, TX_HEIGHT_UNCONF_PARENT}
    THEN [s EXCEPT !.verified_tx = Pop(s.verified_tx, tx_hash)]
  ELSE [s EXCEPT !.unverified_tx = Put(s.unverified_tx, tx_hash, tx_height)]

add_unverified_tx(s, tx_hash, tx_height) ==
  IF s.err # None THEN s
  ELSE IF tx_hash \in DOMAIN s.verified_tx
    THEN IF tx_height \in {TX_HEIGHT_UNCONFIRMED, TX_HEIGHT_UNCONF_PARENT}
           THEN [s EXCEPT !.verified_tx = Pop(s.verified_tx, tx_hash)]
           ELSE s
  ELSE [s EXCEPT !.unverified_tx = Put(s.unverified_tx, tx_hash, tx_height)]

\* add_unverified_tx after its membership test (line 681), which is made
\* before self.lock is taken: found is what the test saw.  The pop of line
\* 685 has no default and raises KeyError when the key is gone.
add_unverified_tx_after_test(s, tx_hash, tx_height, found) ==
  IF found
    THEN IF tx_height \in {TX_HEIGHT_UNCONFIRMED, TX_HEIGHT_UNCONF_PARENT}
           THEN IF tx_hash \in DOMAIN s.verified_tx
                  THEN [s EXCEPT !.verified_tx = Pop(s.verified_tx, tx_hash)]
                  ELSE [s EXCEPT !.err = "KeyError"]
           ELSE s
    ELSE [s EXCEPT !.unverified_tx = Put(s.unverified_tx, tx_hash, tx_height)]

\* Faulty variant: the entry is removed whatever height is stored.
remove_unverified_tx_any_height(s, tx_hash, tx_height) ==
  [s EXCEPT !.unverified_tx = Pop(s.unverified_tx, tx_hash)]

remove_unverified_tx(s, tx_hash, tx_height) ==
  \* new_height = self.unverified_tx.get(tx_hash) is None for a missing key
  IF tx_hash \in DOMAIN s.unverified_tx /\ s.unverified_tx[tx_hash] = tx_height
       THEN [s EXCEPT !.unverified_tx = Pop(s.unverified_tx, tx_hash)]
       ELSE s

\* Faulty variant: the unverified entry is not removed.
add_verified_tx_no_pop(s, tx_hash, info) ==
  [s EXCEPT !.verified_tx = Put(s.verified_tx, tx_hash, info)]

add_verified_tx(s, tx_hash, info) ==
  [s EXCEPT !.unverified_tx = Pop(s.unverified_tx, tx_hash),
            !.verified_tx = Put(s.verified_tx, tx_hash, info)]

\* blockchain[h] is hash_header(blockchain.read_header(h)), None when the
\* chain has no header at h.  The verified transactions undo_verifications
\* demotes:
\* Faulty variant: the block at `height` itself is not looked at.
Undone_above(s, blockchain, height) ==
  {tx_hash \in DOMAIN s.verified_tx :
     LET info == s.verified_tx[tx_hash] IN
       /\ info.height > height
       /\ \/ blockchain[info.height] = None
          \/ blockchain[info.height] # info.header_hash}

Undone(s, blockchain, height) ==
  {tx_hash \in DOMAIN s.verified_tx :
     LET info == s.verified_tx[tx_hash] IN
       /\ info.height >= height
       /\ \/ blockchain[info.height] = None
          \/ blockchain[info.height] # info.header_hash}

\* [s, txs]
undo_verifications(s, blockchain, height) ==
  LET txs == Undone(s, blockchain, height) IN
  [s |-> [s EXCEPT
            !.verified_tx = [t \in DOMAIN s.verified_tx \ txs |-> s.verified_tx[t]],
            !.unverified_tx = [t \in DOMAIN s.unverified_tx \cup txs |->
                                 IF t \in txs THEN s.verified_tx[t].height
                                 ELSE s.unverified_tx[t]]],
   txs |-> txs]

\* Faulty variant: the block holding the transaction is not counted.
get_tx_height_conf_off(s, tx_hash, local_height) ==
  IF tx_hash \in DOMAIN s.verified_tx
    THEN LET h == s.verified_tx[tx_hash].height
             c == local_height - h
         IN [height |-> h, conf |-> IF c > 0 THEN c ELSE 0]
  ELSE IF tx_hash \in DOMAIN s.unverified_tx
    THEN [height |-> s.unverified_tx[tx_hash], conf |-> 0]
  ELSE [height |-> TX_HEIGHT_LOCAL, conf |-> 0]

\* get_tx_height: [height, conf]
get_tx_height(s, tx_hash, local_height) ==
  IF tx_hash \in DOMAIN s.verified_tx
    THEN LET h == s.verified_tx[tx_hash].height
             c == local_height - h + 1
         IN [height |-> h, conf |-> IF c > 0 THEN c ELSE 0]
  ELSE IF tx_hash \in DOMAIN s.unverified_tx
    THEN [height |-> s.unverified_tx[tx_hash], conf |-> 0]
  ELSE [height |-> TX_HEIGHT_LOCAL, conf |-> 0]

(***************************************************************************)
(* History ledger: the syncer's callbacks, add_address, clear_history      *)
(***************************************************************************)
\* the set of <<txid, height>> of the transactions indexed under addr
get_address_history(s, addr) ==
  {<<tx_hash, TxHeight(s, tx_hash)>> : tx_hash \in Get(s.history_local, addr, {})}

InHist(hist, e) == \E i \in 1..Len(hist) : hist[i] = e

\* the first loop of receive_history_callback: "make tx local"
Retract(s, addr, hist) ==
  LET gone == {e[1] : e \in {x \in get_address_history(s, addr) : ~InHist(hist, x)}}
  IN [s EXCEPT
        !.unverified_tx = [t \in DOMAIN s.unverified_tx \ gone |-> s.unverified_tx[t]],
        !.verified_tx = [t \in DOMAIN s.verified_tx \ gone |-> s.verified_tx[t]],
        !.history = Put(s.history, addr, hist)]

\* lines 430-433: a transaction the wallet holds is indexed again
Reindex(s, tx_hash) ==
  IF tx_hash \notin s.transactions THEN s ELSE add_transaction(s, tx_hash, TRUE).s

\* the second loop of receive_history_callback, from entry i on
RECURSIVE Refresh(_, _, _)
Refresh(s, hist, i) ==
  IF i > Len(hist) \/ s.err # None THEN s
  ELSE Refresh(Reindex(add_unverified_tx(s, hist[i][1], hist[i][2]), hist[i][1]),
               hist, i + 1)

\* dict.update
Update(d, e) == [k \in DOMAIN d \cup DOMAIN e |-> IF k \in DOMAIN e THEN e[k] ELSE d[k]]

\* "Store fees", not reached when add_transaction raised
StoreFees(s, fees) ==
  IF s.err # None THEN s ELSE [s EXCEPT !.tx_fees = Update(s.tx_fees, fees)]

receive_history_callback(s, addr, hist, fees) ==
  StoreFees(Refresh(Retract(s, addr, hist), hist, 1), fees)

receive_tx_callback(s, tx_hash, tx_height) ==
  add_transaction(add_unverified_tx(s, tx_hash, tx_height), tx_hash, TRUE)

add_address(s, address) ==
  IF address \notin DOMAIN s.history
    THEN [s EXCEPT !.history = Put(s.history, address, << >>)]
    ELSE s

clear_history(s) ==
  [s EXCEPT !.txi = EmptyDict, !.txo = EmptyDict, !.tx_fees = EmptyDict,
            !.spent_outpoints = EmptyDict, !.history = EmptyDict,
            !.verified_tx = EmptyDict, !.transactions = {}]

(***************************************************************************)
(* Query engine: get_addr_io, get_addr_balance, get_balance                *)
(***************************************************************************)
Range(f) == {f[i] : i \in DOMAIN f}

\* lines 886-889: <<tx_hash, height, n, v, is_cb>> for every output to
\* address of a transaction of its history
Receipts(s, address) ==
  UNION {{<<e[1], e[2], o[1], o[2], o[3]>> :
            o \in Range(Get(Get(s.txo, e[1], EmptyDict), address, << >>))} :
         e \in get_address_history(s, address)}

\* lines 890-893: <<outpoint, height>> for every coin of address spent by a
\* transaction of its history
Spends(s, address) ==
  UNION {{<<i[1], e[2]>> : i \in Get(Get(s.txi, e[1], EmptyDict), address, {})} :
         e \in get_address_history(s, address)}

ReceivedOf(receipts) ==
  [k \in {<<r[1], r[3]>> : r \in receipts} |->
     LET r == CHOOSE x \in receipts : <<x[1], x[3]>> = k
     IN <<r[2], r[4], r[5]>>]

SentOf(spends) ==
  [k \in {x[1] : x \in spends} |-> (CHOOSE x \in spends : x[1] = k)[2]]

\* received: outpoint -> <<height, value, is_cb>>; sent: outpoint -> height
get_addr_io(s, address) ==
  [received |-> ReceivedOf(Receipts(s, address)),
   sent |-> SentOf(Spends(s, address))]

\* Faulty variant: a spent output is always subtracted from c.
Credit_spent_from_c(b, txo_key, r, sent, local_height) ==
  LET tx_height == r[1]
      v == r[2]
      is_cb == r[3]
      b1 == IF is_cb /\ tx_height + COINBASE_MATURITY > local_height
              THEN [b EXCEPT !.x = @ + v]
            ELSE IF tx_height > 0 THEN [b EXCEPT !.c = @ + v]
            ELSE [b EXCEPT !.u = @ + v]
  IN IF txo_key \in DOMAIN sent THEN [b1 EXCEPT !.c = @ - v] ELSE b1

\* lines 928-939: one received output, added to the balance b
Credit(b, txo_key, r, sent, local_height) ==
  LET tx_height == r[1]
      v == r[2]
      is_cb == r[3]
      b1 == IF is_cb /\ tx_height + COINBASE_MATURITY > local_height
              THEN [b EXCEPT !.x = @ + v]
            ELSE IF tx_height > 0 THEN [b EXCEPT !.c = @ + v]
            ELSE [b EXCEPT !.u = @ + v]
  IN IF txo_key \in DOMAIN sent
       THEN IF sent[txo_key] > 0 THEN [b1 EXCEPT !.c = @ - v]
            ELSE [b1 EXCEPT !.u = @ - v]
       ELSE b1

RECURSIVE BalanceOver(_, _, _, _)
BalanceOver(io, keys, local_height, b) ==
  IF keys = {} THEN b
  ELSE LET k == CHOOSE x \in keys : TRUE
       IN BalanceOver(io, keys \ {k}, local_height,
                      Credit(b, k, io.received[k], io.sent, local_height))

BalanceOf(io, local_height) ==
  BalanceOver(io, DOMAIN io.received, local_height, [c |-> 0, u |-> 0, x |-> 0])

\* get_addr_balance: [c, u, x]
get_addr_balance(s, address, local_height) ==
  BalanceOf(get_addr_io(s, address), local_height)

RECURSIVE get_balance(_, _, _)
get_balance(s, domain, local_height) ==
  IF domain = {} THEN [c |-> 0, u |-> 0, x |-> 0]
  ELSE LET addr == CHOOSE a \in domain : TRUE
       IN [c |-> get_addr_balance(s, addr, local_height).c
                   + get_balance(s, domain \ {addr}, local_height).c,
           u |-> get_addr_balance(s, addr, local_height).u
                   + get_balance(s, domain \ {addr}, local_height).u,
           x |-> get_addr_balance(s, addr, local_height).x
                   + get_balance(s, domain \ {addr}, local_height).x]

(***************************************************************************)
(* Query engine: get_tx_delta, get_txpos, get_history                      *)
(***************************************************************************)
RECURSIVE Total(_, _)
\* the sum of the components x[i] of the tuples x of a set
Total(set, i) ==
  IF set = {} THEN 0
  ELSE LET x == CHOOSE y \in set : TRUE IN x[i] + Total(set \ {x}, i)

\* "effect of tx on address"
get_tx_delta(s, tx_hash, address) ==
  Total(Range(Get(Get(s.txo, tx_hash, EmptyDict), address, << >>)), 2)
    - Total(Get(Get(s.txi, tx_hash, EmptyDict), address, {}), 2)

\* Faulty variant: the position in the block is not looked at.
get_txpos_height_only(s, tx_hash) ==
  IF tx_hash \in DOMAIN s.verified_tx
    THEN <<s.verified_tx[tx_hash].height, 0>>
  ELSE IF tx_hash \in DOMAIN s.unverified_tx
    THEN IF s.unverified_tx[tx_hash] > 0
           THEN <<s.unverified_tx[tx_hash], 0>>
           ELSE <<1000000000 - s.unverified_tx[tx_hash], 0>>
  ELSE <<1000000000 + 1, 0>>

get_txpos(s, tx_hash) ==
  IF tx_hash \in DOMAIN s.verified_tx
    THEN <<s.verified_tx[tx_hash].height, s.verified_tx[tx_hash].txpos>>
  ELSE IF tx_hash \in DOMAIN s.unverified_tx
    THEN IF s.unverified_tx[tx_hash] > 0
           THEN <<s.unverified_tx[tx_hash], 0>>
           ELSE <<1000000000 - s.unverified_tx[tx_hash], 0>>
  ELSE <<1000000000 + 1, 0>>

\* the order of Python's tuples
TupleLess(k1, k2) == k1[1] < k2[1] \/ (k1[1] = k2[1] /\ k1[2] < k2[2])

\* step 1: the keys of tx_deltas
HistoryTxs(s, domain) ==
  UNION {{e[1] : e \in get_address_history(s, addr)} : addr \in domain}

\* step 1: tx_deltas[tx_hash], the sum of the deltas on the addresses of the
\* domain that have tx_hash in their history
DeltaOn(s, domain, tx_hash) ==
  Total({<<addr, get_tx_delta(s, tx_hash, addr)>> :
           addr \in {a \in domain : tx_hash \in Get(s.history_local, a, {})}}, 2)

\* step 2: the orders history.sort(key=get_txpos, reverse=True) can leave.
\* The sort is stable and the list is built in the iteration order of a set
\* of strings, which is not determined: transactions with equal keys come
\* in any order.
SortedHistories(s, txs) ==
  {h \in [1..Cardinality(txs) -> txs] :
     /\ \A i, j \in DOMAIN h : i # j => h[i] # h[j]
     /\ \A i, j \in DOMAIN h :
          i < j => ~TupleLess(get_txpos(s, h[i]), get_txpos(s, h[j]))}

Row(s, domain, local_height, tx_hash, balance) ==
  [tx_hash |-> tx_hash,
   height |-> get_tx_height(s, tx_hash, local_height).height,
   conf |-> get_tx_height(s, tx_hash, local_height).conf,
   delta |-> DeltaOn(s, domain, tx_hash),
   balance |-> balance]

RECURSIVE WalkBack(_, _, _, _, _, _, _)
\* step 3: [h2, balance] after the rows from i on
WalkBack(s, domain, local_height, sorted, i, balance, h2) ==
  IF i > Len(sorted) THEN [h2 |-> h2, balance |-> balance]
  ELSE WalkBack(s, domain, local_height, sorted, i + 1,
                balance - DeltaOn(s, domain, sorted[i]),
                Append(h2, Row(s, domain, local_height, sorted[i], balance)))

Reverse(seq) == [i \in 1..Len(seq) |-> seq[Len(seq) + 1 - i]]

\* "history not synchronized"
Checked(w) == IF w.balance # 0 THEN << >> ELSE Reverse(w.h2)

BalanceSum(b) == b.c + b.u + b.x

\* get_history: the lists it can return
get_history(s, domain, local_height) ==
  {Checked(WalkBack(s, domain, local_height, sorted, 1,
                    BalanceSum(get_balance(s, domain, local_height)), << >>)) :
     sorted \in SortedHistories(s, HistoryTxs(s, domain))}

(***************************************************************************)
(* Query engine: get_wallet_delta, get_tx_fee.  A value that can be None   *)
(* is << >> for None and <<v>> otherwise.                                  *)
(***************************************************************************)
\* lines 826-831: the value txo records for the output the input spends
InputValue(s, txin, addr) ==
  LET d == Get(Get(s.txo, txin.prevout_hash, EmptyDict), addr, << >>)
      hits == {i \in 1..Len(d) : d[i][1] = txin.prevout_n}
  IN IF hits = {} THEN << >>
     ELSE << d[CHOOSE i \in hits : \A j \in hits : i <= j][2] >>

\* lines 823-837: one input; acc = [is_mine, is_pruned, is_partial, v_in]
DeltaInput(s, addr, value, acc) ==
  IF ~is_mine(s, addr) THEN [acc EXCEPT !.is_partial = TRUE]
  ELSE IF value = << >> THEN [acc EXCEPT !.is_mine = TRUE, !.is_pruned = TRUE]
  ELSE [acc EXCEPT !.is_mine = TRUE, !.v_in = @ + value[1]]

RECURSIVE DeltaInputs(_, _, _, _)
DeltaInputs(s, ins, i, acc) ==
  IF i > Len(ins) THEN acc
  ELSE DeltaInputs(s, ins, i + 1,
         DeltaInput(s, get_txin_address(s, ins[i]),
                    InputValue(s, ins[i], get_txin_address(s, ins[i])), acc))

\* lines 840-844: the sum of the outputs from output i on, of all of them or
\* of those that pay the wallet
RECURSIVE DeltaOutputs(_, _, _, _)
DeltaOutputs(s, outs, i, mine_only) ==
  IF i > Len(outs) THEN 0
  ELSE (IF mine_only /\ ~is_mine(s, outs[i].address) THEN 0 ELSE outs[i].value)
         + DeltaOutputs(s, outs, i + 1, mine_only)

\* Faulty variant: the amount leaves the fee out.
DeltaResult_without_fee(acc, for_me, v_out, v_out_mine) ==
  [is_relevant |-> acc.is_mine \/ for_me,
   is_mine |-> acc.is_mine,
   v |-> IF acc.is_mine THEN v_out_mine - v_out ELSE v_out_mine,
   fee |-> IF acc.is_mine /\ ~acc.is_pruned /\ ~acc.is_partial
             THEN << acc.v_in - v_out >> ELSE << >>]

\* lines 838-864
DeltaResult(acc, for_me, v_out, v_out_mine) ==
  [is_relevant |-> acc.is_mine \/ for_me,
   is_mine |-> acc.is_mine,
   v |-> IF acc.is_pruned
           THEN IF acc.is_mine THEN v_out_mine - v_out ELSE v_out_mine
           ELSE v_out_mine - acc.v_in,
   fee |-> IF acc.is_mine /\ ~acc.is_pruned /\ ~acc.is_partial
             THEN << acc.v_in - v_out >> ELSE << >>]

\* "effect of tx on wallet"
get_wallet_delta(s, tx_hash) ==
  DeltaResult(DeltaInputs(s, Tx[tx_hash].inputs, 1,
                          [is_mine |-> FALSE, is_pruned |-> FALSE,
                           is_partial |-> FALSE, v_in |-> 0]),
              \E i \in 1..Len(Tx[tx_hash].outputs) :
                 is_mine(s, Tx[tx_hash].outputs[i].address),
              DeltaOutputs(s, Tx[tx_hash].outputs, 1, FALSE),
              DeltaOutputs(s, Tx[tx_hash].outputs, 1, TRUE))

\* lines 874-878: the fee the server reported when the wallet has none of
\* its own; a fee that is not None is cached on the Transaction object
FeeCached(s, tx_hash, fee) ==
  [s |-> IF fee # << >>
           THEN [s EXCEPT !.cached_fee = Put(s.cached_fee, tx_hash, fee[1])]
           ELSE s,
   fee |-> fee]

\* [s, fee]; the caller passes the Transaction object the wallet holds
get_tx_fee(s, tx_hash) ==
  IF tx_hash \in DOMAIN s.cached_fee
    THEN [s |-> s, fee |-> << s.cached_fee[tx_hash] >>]
  ELSE IF get_wallet_delta(s, tx_hash).fee # << >>
    THEN FeeCached(s, tx_hash, get_wallet_delta(s, tx_hash).fee)
  ELSE FeeCached(s, tx_hash,
                 IF tx_hash \in DOMAIN s.tx_fees
                   THEN << s.tx_fees[tx_hash] >> ELSE << >>)

(***************************************************************************)
(* Query engine: get_addr_utxo                                             *)
(***************************************************************************)
\* [err, out]: coins.pop(txi) raises KeyError for a spent outpoint that was
\* not received; out: outpoint -> <<height, value, is_cb>>
get_addr_utxo(s, address) ==
  IF DOMAIN get_addr_io(s, address).sent \subseteq DOMAIN get_addr_io(s, address).received
    THEN [err |-> None,
          out |-> [k \in DOMAIN get_addr_io(s, address).received
                           \ DOMAIN get_addr_io(s, address).sent |->
                     get_addr_io(s, address).received[k]]]
    ELSE [err |-> "KeyError", out |-> EmptyDict]

(***************************************************************************)
(* Persistence: save_transactions, save_verified_tx and the constructor    *)
(* with load_and_cleanup.  The storage keeps dicts, lists and numbers as   *)
(* they are; what a load does not bring back is what the loaders skip.     *)
(* The loops over the addresses of the history run in the order of the     *)
(* dict, which the model does not keep: the specifications that restart    *)
(* the wallet watch one address.                                           *)
(***************************************************************************)
\* save_transactions and save_verified_tx: what they put in the storage
Storage(s) ==
  [transactions |-> s.transactions, txi |-> s.txi, txo |-> s.txo,
   tx_fees |-> s.tx_fees, addr_history |-> s.history,
   spent_outpoints |-> s.spent_outpoints, verified_tx3 |-> s.verified_tx]

\* lines 465-477: only the entries whose spender the wallet has are loaded,
\* and a key exists only where an entry was loaded
LoadSpent(sp, txs) ==
  [h \in {k \in DOMAIN sp : \E n \in DOMAIN sp[k] : sp[k][n] \in txs} |->
     [n \in {m \in DOMAIN sp[h] : sp[h][m] \in txs} |-> sp[h][n]]]

\* __init__ and load_transactions: an unreferenced transaction is dropped
load_transactions(st) ==
  [transactions |-> {t \in st.transactions : t \in DOMAIN st.txi \cup DOMAIN st.txo},
   txi |-> st.txi, txo |-> st.txo, tx_fees |-> st.tx_fees,
   spent_outpoints |->
     LoadSpent(st.spent_outpoints,
               {t \in st.transactions : t \in DOMAIN st.txi \cup DOMAIN st.txo}),
   history_local |-> EmptyDict, history |-> st.addr_history,
   verified_tx |-> st.verified_tx3, unverified_tx |-> EmptyDict,
   err |-> None, marked |-> {}, cached_fee |-> EmptyDict]

RECURSIVE load_local_history(_, _)
\* for txid in itertools.chain(self.txi, self.txo)
load_local_history(s, txids) ==
  IF txids = {} THEN s
  ELSE load_local_history(add_tx_to_local_history(s, CHOOSE t \in txids : TRUE),
                          txids \ {CHOOSE t \in txids : TRUE})

\* lines 492-498: the entries of one history from entry i on
RECURSIVE CheckHist(_, _, _)
CheckHist(s, hist, i) ==
  IF i > Len(hist) THEN s
  ELSE IF DOMAIN Get(s.txi, hist[i][1], EmptyDict) # {}
            \/ DOMAIN Get(s.txo, hist[i][1], EmptyDict) # {}
    THEN CheckHist(s, hist, i + 1)
  ELSE IF hist[i][1] \in s.transactions
    THEN CheckHist(add_transaction(s, hist[i][1], TRUE).s, hist, i + 1)
  ELSE CheckHist(s, hist, i + 1)

RECURSIVE check_history(_, _)
check_history(s, addrs) ==
  IF addrs = {} THEN s
  ELSE check_history(CheckHist(s, s.history[CHOOSE a \in addrs : TRUE], 1),
                     addrs \ {CHOOSE a \in addrs : TRUE})

\* lines 168-171: the entries of one history from entry i on
RECURSIVE LoadUnverified(_, _, _)
LoadUnverified(s, hist, i) ==
  IF i > Len(hist) THEN s
  ELSE LoadUnverified(add_unverified_tx(s, hist[i][1], hist[i][2]), hist, i + 1)

RECURSIVE load_unverified_transactions(_, _)
load_unverified_transactions(s, addrs) ==
  IF addrs = {} THEN s
  ELSE load_unverified_transactions(
         LoadUnverified(s, s.history[CHOOSE a \in addrs : TRUE], 1),
         addrs \ {CHOOSE a \in addrs : TRUE})

remove_local_transactions_we_dont_have(s) ==
  RemoveAll(s, {txid \in DOMAIN s.txi \cup DOMAIN s.txo :
                  TxHeight(s, txid) = TX_HEIGHT_LOCAL /\ txid \notin s.transactions})

\* load_local_history .. remove_local_transactions_we_dont_have
AfterLoad(s) ==
  remove_local_transactions_we_dont_have(
    load_unverified_transactions(check_history(s, DOMAIN s.history),
                                 DOMAIN s.history))

\* the engine that __init__ builds from the storage st
load_and_cleanup(st) ==
  AfterLoad(load_local_history(load_transactions(st),
                               DOMAIN st.txi \cup DOMAIN st.txo))

(***************************************************************************)
(* The inputs of the environment                                           *)
(***************************************************************************)
\* address histories as the server reports them: each txid at most once
RECURSIVE HistsOfLen(_)
HistsOfLen(n) ==
  IF n = 0 THEN {<< >>}
  ELSE {Append(h, <<t, ht>>) :
          h \in HistsOfLen(n - 1), t \in TxIds, ht \in Heights}

Hists ==
  {h \in UNION {HistsOfLen(n) : n \in 0..MaxHistLen} :
     \A i, j \in 1..Len(h) : i # j => h[i][1] # h[j][1]}

MinedInfos == [height : BlockHeights, header_hash : HeaderHashes]
\* what get_local_height can return: the height of the local chain
LocalHeights == 0..MaxHeight
\* verified_tx holds TxMinedInfo with the position of the transaction in its
\* block; only get_txpos reads it
PositionedInfos ==
  [height : {MaxHeight - 1, MaxHeight}, header_hash : {"H1"}, txpos : {0, 1}]
\* a chain short of, at, and past the maturity of a coinbase at MaxHeight
BalanceHeights == {0, MaxHeight, MaxHeight + COINBASE_MATURITY - 1, MaxHeight + COINBASE_MATURITY}
Blockchains == [BlockHeights -> HeaderHashes \cup {None}]

(***************************************************************************)
(* Actions: one per public method.  last is the outcome of the last call:  *)
(* ret is what it returned or raised (for add_unverified_tx, which returns *)
(* nothing, the branch it took) and txs the transactions it reports        *)
(* (evicted by add_transaction, returned by undo_verifications).           *)
(***************************************************************************)
Outcome(ret, txs) == [ret |-> ret, txs |-> txs]

Init ==
  /\ transactions = {}
  /\ txi = EmptyDict
  /\ txo = EmptyDict
  /\ spent_outpoints = EmptyDict
  /\ history_local = EmptyDict
  /\ history = EmptyDict
  /\ verified_tx = EmptyDict
  /\ unverified_tx = EmptyDict
  /\ tx_fees = EmptyDict
  /\ cached_fee = EmptyDict
  /\ last = Outcome(None, {})
  /\ frames = [th \in Threads |-> Idle]
  /\ threadlocal_cache = [th \in Threads |-> << >>]
  /\ network = 0

\* the call returns (or raises) ret, reports txs and leaves the state s
Lands(s, ret, txs) ==
  /\ last' = Outcome(ret, txs)
  /\ Becomes(s)
  /\ UNCHANGED frames

LandsResult(r) == Lands(r.s, r.ret, r.removed)
LandsState(s) == Lands(s, s.err, {})

AddAddress(a) == Lands(add_address(Cur, a), None, {})

AddTransaction(t, allow_unrelated) ==
  LandsResult(add_transaction(Cur, t, allow_unrelated))

RemoveTransaction(t) == LandsState(remove_transaction(Cur, t))

ReceiveTxCallback(t, h) == LandsState(receive_tx_callback(Cur, t, h).s)

ReceiveHistoryCallback(addr, hist, fees) ==
  LandsState(receive_history_callback(Cur, addr, hist, fees))

ClearHistory == Lands(clear_history(Cur), None, {})

\* the branch add_unverified_tx takes
AddUnverifiedBranch(s, tx_hash, tx_height) ==
  IF tx_hash \in DOMAIN s.verified_tx
    THEN IF tx_height \in {TX_HEIGHT_UNCONFIRMED, TX_HEIGHT_UNCONF_PARENT}
           THEN "demoted" ELSE "kept"
    ELSE "written"

AddUnverifiedTx(t, h) ==
  Lands(add_unverified_tx(Cur, t, h), AddUnverifiedBranch(Cur, t, h), {})

RemoveUnverifiedTx(t, h) == Lands(remove_unverified_tx(Cur, t, h), None, {})

AddVerifiedTx(t, info) == Lands(add_verified_tx(Cur, t, info), None, {})

LandsUndo(r) == Lands(r.s, None, r.txs)

UndoVerifications(blockchain, height) ==
  LandsUndo(undo_verifications(Cur, blockchain, height))

(***************************************************************************)
(* The ingest engine under the syncer and the user: the wallet watches     *)
(* address A; mined transactions are reported at height MaxHeight.        *)
(***************************************************************************)
IngestAddrs == {"A"}
IngestHeights == {TX_HEIGHT_UNCONFIRMED, MaxHeight}
\* T4 is a transaction of the user, never reported by the server
ReportedTxIds == TxIds \ {"T4"}
\* the history of A lists T1, possibly with an unconfirmed parent
IngestHists ==
  {h \in Hists : \A i \in 1..Len(h) :
     h[i][1] = "T1" /\ h[i][2] \in IngestHeights \cup {TX_HEIGHT_UNCONF_PARENT}}

NextIngest ==
  \/ \E a \in IngestAddrs : AddAddress(a)
  \/ \E t \in TxIds, allow_unrelated \in BOOLEAN : AddTransaction(t, allow_unrelated)
  \/ \E t \in TxIds : RemoveTransaction(t)
  \/ \E t \in ReportedTxIds, h \in IngestHeights : ReceiveTxCallback(t, h)
  \/ \E addr \in IngestAddrs, hist \in IngestHists :
       ReceiveHistoryCallback(addr, hist, EmptyDict)
  \/ ClearHistory

SpecIngest == Init /\ [][NextIngest]_vars

(***************************************************************************)
(* The ledger and the coordinator under the syncer and the SPV verifier:   *)
(* the server reports T1 and T3, in the mempool or mined at MaxHeight.     *)
(***************************************************************************)
VerifyTxIds == {"T1", "T3"}
VerifyHeights == {TX_HEIGHT_UNCONFIRMED, MaxHeight}
VerifyHists ==
  {h \in Hists : \A i \in 1..Len(h) : h[i][1] \in VerifyTxIds /\ h[i][2] \in VerifyHeights}
VerifyInfos == {info \in MinedInfos : info.height = MaxHeight}

NextVerify ==
  \/ \E t \in VerifyTxIds, h \in VerifyHeights : AddUnverifiedTx(t, h)
  \/ \E t \in VerifyTxIds, h \in VerifyHeights : RemoveUnverifiedTx(t, h)
  \/ \E t \in VerifyTxIds, info \in VerifyInfos : AddVerifiedTx(t, info)
  \/ \E blockchain \in Blockchains, height \in 1..(MaxHeight + 1) :
       UndoVerifications(blockchain, height)
  \/ \E addr \in IngestAddrs, hist \in VerifyHists :
       ReceiveHistoryCallback(addr, hist, EmptyDict)
  \/ \E t \in VerifyTxIds, h \in VerifyHeights : ReceiveTxCallback(t, h)
  \/ ClearHistory

SpecVerify == Init /\ [][NextVerify]_vars

(***************************************************************************)
(* The coordinator alone, over every height a server can report.           *)
(***************************************************************************)
CoordTxIds == {"T1", "T2", "T3"}

NextCoord ==
  \/ \E t \in CoordTxIds, h \in Heights : AddUnverifiedTx(t, h)
  \/ \E t \in CoordTxIds, h \in Heights : RemoveUnverifiedTx(t, h)
  \/ \E t \in CoordTxIds, info \in MinedInfos : AddVerifiedTx(t, info)
  \/ \E blockchain \in Blockchains, height \in 1..(MaxHeight + 1) :
       UndoVerifications(blockchain, height)

SpecCoord == Init /\ [][NextCoord]_vars

(***************************************************************************)
(* The coordinator called from two threads.  A step is what runs between   *)
(* two points where another thread can run and see or change the maps: a   *)
(* `with self.lock` block, or a read made outside of any lock.             *)
(***************************************************************************)
RaceTxIds == {"T1", "T3"}
RaceHeights == {TX_HEIGHT_UNCONFIRMED, MaxHeight}
RaceInfos == {info \in MinedInfos : info.height = MaxHeight}

\* a call that runs in one step, made by a thread that is not inside a call
Calls(th, call) == frames[th] = Idle /\ call

\* add_unverified_tx, line 681: `if tx_hash in self.verified_tx`, no lock held
TestVerified(th, t, h) ==
  /\ frames[th] = Idle
  /\ frames' = [frames EXCEPT ![th] =
                  [op |-> "add_unverified_tx", tx_hash |-> t, tx_height |-> h,
                   found |-> t \in DOMAIN verified_tx]]
  /\ UNCHANGED << transactions, txi, txo, spent_outpoints, history_local,
                  history, verified_tx, unverified_tx, tx_fees, cached_fee, last,
                  threadlocal_cache, network >>

\* the call returns (or raises) in thread th
Returns(th, s, ret, txs) ==
  /\ last' = Outcome(ret, txs)
  /\ Becomes([s EXCEPT !.err = None])
  /\ frames' = [frames EXCEPT ![th] = Idle]

WriteOutcome(s, f) ==
  IF s.err # None THEN s.err
  ELSE IF ~f.found THEN "written"
  ELSE IF f.tx_height \in {TX_HEIGHT_UNCONFIRMED, TX_HEIGHT_UNCONF_PARENT}
    THEN "demoted" ELSE "kept"

\* add_unverified_tx, lines 682-690
WriteUnverified(th) ==
  /\ frames[th].op = "add_unverified_tx"
  /\ Returns(th,
             add_unverified_tx_after_test(Cur, frames[th].tx_hash,
                                          frames[th].tx_height, frames[th].found),
             WriteOutcome(add_unverified_tx_after_test(Cur, frames[th].tx_hash,
                                          frames[th].tx_height, frames[th].found),
                          frames[th]),
             {frames[th].tx_hash})

RemoveBranch(s, tx_hash, tx_height) ==
  IF tx_hash \in DOMAIN s.unverified_tx
    THEN IF s.unverified_tx[tx_hash] = tx_height THEN "removed" ELSE "left"
    ELSE "absent"

\* remove_unverified_tx: one `with self.lock` block
RemoveUnverified(th, t, h) ==
  /\ frames[th] = Idle
  /\ Returns(th, remove_unverified_tx(Cur, t, h), RemoveBranch(Cur, t, h), {t})

NextRaceCoord ==
  \/ \E th \in Threads, t \in RaceTxIds, h \in RaceHeights : TestVerified(th, t, h)
  \/ \E th \in Threads : WriteUnverified(th)
  \/ \E th \in Threads, t \in RaceTxIds, h \in RaceHeights : RemoveUnverified(th, t, h)
  \/ \E th \in Threads, t \in RaceTxIds, info \in RaceInfos :
       Calls(th, AddVerifiedTx(t, info))
  \/ \E th \in Threads, blockchain \in Blockchains, height \in 1..(MaxHeight + 1) :
       Calls(th, UndoVerifications(blockchain, height))

SpecRaceCoord == Init /\ [][NextRaceCoord]_vars

(***************************************************************************)
(* The two locks.  self.lock and self.transaction_lock are RLocks; what a  *)
(* method does with them is the sequence of its acquisitions and releases, *)
(* the methods it calls included.  A branch or a loop body that takes a     *)
(* lock is taken once.                                                     *)
(***************************************************************************)
LockNames == {"lock", "transaction_lock"}

\* `with l:` around body
With(l, body) == << <<"acquire", l>> >> \o body \o << <<"release", l>> >>
\* `with self.lock, self.transaction_lock:` around body
WithBoth(body) == With("lock", With("transaction_lock", body))

get_tx_height_locks == With("lock", << >>)
get_txpos_locks == With("lock", << >>)
get_tx_delta_locks == With("transaction_lock", << >>)
get_conflicting_transactions_locks == With("transaction_lock", << >>)
add_tx_to_local_history_locks == With("transaction_lock", << >>)
remove_tx_from_local_history_locks == With("transaction_lock", << >>)
remove_transaction_locks ==
  With("transaction_lock", remove_tx_from_local_history_locks)

\* Faulty variant: the index lock is taken first.
get_address_history_locks_index_first ==
  With("transaction_lock", With("lock", get_tx_height_locks))

get_address_history_locks == WithBoth(get_tx_height_locks)

add_transaction_locks ==
  WithBoth(get_tx_height_locks \o get_conflicting_transactions_locks
             \o get_tx_height_locks \o remove_transaction_locks
             \o add_tx_to_local_history_locks)
add_unverified_tx_locks == With("lock", << >>)
receive_history_callback_locks ==
  With("lock", get_address_history_locks)
    \o add_unverified_tx_locks \o add_transaction_locks
add_verified_tx_locks == With("lock", << >>) \o get_tx_height_locks
undo_verifications_locks == With("lock", << >>)
get_addr_io_locks == WithBoth(get_address_history_locks)
get_balance_locks == get_addr_io_locks
get_history_locks ==
  get_address_history_locks \o get_tx_delta_locks \o get_tx_height_locks
    \o get_txpos_locks \o get_balance_locks
get_tx_fee_locks == WithBoth(<< >>)
save_transactions_locks == With("transaction_lock", << >>)
clear_history_locks ==
  With("lock", With("transaction_lock", save_transactions_locks))

LockProgram ==
  [add_transaction |-> add_transaction_locks,
   remove_transaction |-> remove_transaction_locks,
   receive_history_callback |-> receive_history_callback_locks,
   add_verified_tx |-> add_verified_tx_locks,
   undo_verifications |-> undo_verifications_locks,
   get_tx_height |-> get_tx_height_locks,
   get_tx_delta |-> get_tx_delta_locks,
   get_address_history |-> get_address_history_locks,
   get_addr_io |-> get_addr_io_locks,
   get_history |-> get_history_locks,
   get_tx_fee |-> get_tx_fee_locks,
   clear_history |-> clear_history_locks]

LockMethods == DOMAIN LockProgram

\* how many times the thread with frame f holds l
Held(f, l) ==
  IF f.op \notin LockMethods THEN 0
  ELSE Cardinality({i \in 1..(f.pc - 1) : LockProgram[f.op][i] = <<"acquire", l>>})
         - Cardinality({i \in 1..(f.pc - 1) : LockProgram[f.op][i] = <<"release", l>>})

\* the instruction the thread with frame f is at
Instr(f) == LockProgram[f.op][f.pc]

\* an RLock is free for its owner
Free(th, l) == \A other \in Threads \ {th} : Held(frames[other], l) = 0

Advance(th) ==
  /\ frames' = [frames EXCEPT ![th] =
                  IF frames[th].pc = Len(LockProgram[frames[th].op]) THEN Idle
                  ELSE [frames[th] EXCEPT !.pc = @ + 1]]
  /\ UNCHANGED << transactions, txi, txo, spent_outpoints, history_local,
                  history, verified_tx, unverified_tx, tx_fees, cached_fee, last,
                  threadlocal_cache, network >>

Enter(th, m) ==
  /\ frames[th] = Idle
  /\ frames' = [frames EXCEPT ![th] = [op |-> m, pc |-> 1]]
  /\ UNCHANGED << transactions, txi, txo, spent_outpoints, history_local,
                  history, verified_tx, unverified_tx, tx_fees, cached_fee, last,
                  threadlocal_cache, network >>

CanAcquire(th) ==
  /\ frames[th].op \in LockMethods
  /\ Instr(frames[th])[1] = "acquire"
  /\ Free(th, Instr(frames[th])[2])

Acquire(th) == CanAcquire(th) /\ Advance(th)

CanRelease(th) ==
  /\ frames[th].op \in LockMethods
  /\ Instr(frames[th])[1] = "release"

Release(th) == CanRelease(th) /\ Advance(th)

NextLocks ==
  \/ \E th \in Threads, m \in LockMethods : Enter(th, m)
  \/ \E th \in Threads : Acquire(th)
  \/ \E th \in Threads : Release(th)

SpecLocks == Init /\ [][NextLocks]_vars

(***************************************************************************)
(* receive_history_callback on one thread, step by step, while the other   *)
(* thread queries.  Only the first loop runs under self.lock (lines        *)
(* 415-424); the second loop takes the locks anew for every entry, inside  *)
(* add_unverified_tx and add_transaction.                                  *)
(***************************************************************************)
HistoryTxIds == {"T1", "T3"}
HistoryHeights == {TX_HEIGHT_UNCONFIRMED, MaxHeight}
HistoryHists ==
  {h \in Hists : \A i \in 1..Len(h) :
     h[i][1] \in HistoryTxIds /\ h[i][2] \in HistoryHeights}

AllIdle == \A th \in Threads : frames[th] = Idle

\* a step of a call that has not returned: the thread's frame becomes f
Continues(th, s, f) ==
  /\ Becomes(s)
  /\ frames' = [frames EXCEPT ![th] = f]
  /\ UNCHANGED last

\* where the second loop goes on from entry i
LoopAt(f, i) ==
  [f EXCEPT !.i = i, !.pc = IF i > Len(f.hist) THEN "fees" ELSE "test"]

\* lines 415-424; before and after are the state at the call and the state
\* the call leaves when nothing runs in between
HistoryRetract(th, addr, hist) ==
  /\ AllIdle
  /\ Continues(th, Retract(Cur, addr, hist),
               LoopAt([op |-> "receive_history_callback", pc |-> "test",
                       addr |-> addr, hist |-> hist, i |-> 1, found |-> FALSE,
                       before |-> Cur,
                       after |-> receive_history_callback(Cur, addr, hist, EmptyDict)],
                      1))

InHistoryCallback(th, pc) ==
  /\ frames[th].op = "receive_history_callback"
  /\ frames[th].pc = pc

\* the entry of hist the second loop is at
Entry(f) == f.hist[f.i]

\* line 428 -> 681: the membership test of add_unverified_tx
HistoryTest(th) ==
  /\ InHistoryCallback(th, "test")
  /\ Continues(th, Cur,
               [frames[th] EXCEPT !.pc = "write",
                  !.found = Entry(frames[th])[1] \in DOMAIN verified_tx])

\* an exception leaves the call
Raises(th, s) == Returns(th, [s EXCEPT !.err = None], s.err, {})

ContinuesOrRaises(th, s, f) ==
  IF s.err # None THEN Raises(th, s) ELSE Continues(th, s, f)

\* line 428 -> 682-690
HistoryWrite(th) ==
  /\ InHistoryCallback(th, "write")
  /\ ContinuesOrRaises(th,
       add_unverified_tx_after_test(Cur, Entry(frames[th])[1],
                                    Entry(frames[th])[2], frames[th].found),
       [frames[th] EXCEPT !.pc = "get"])

\* lines 430-432: tx = self.transactions.get(tx_hash)
HistoryGet(th) ==
  /\ InHistoryCallback(th, "get")
  /\ Continues(th, Cur,
               IF Entry(frames[th])[1] \in transactions
                 THEN [frames[th] EXCEPT !.pc = "add"]
                 ELSE LoopAt(frames[th], frames[th].i + 1))

\* line 433
HistoryAdd(th) ==
  /\ InHistoryCallback(th, "add")
  /\ ContinuesOrRaises(th, add_transaction(Cur, Entry(frames[th])[1], TRUE).s,
                       LoopAt(frames[th], frames[th].i + 1))

\* line 436, and the return
HistoryFees(th) ==
  /\ InHistoryCallback(th, "fees")
  /\ Returns(th, StoreFees(Cur, EmptyDict), None, {})

\* get_tx_height(t) called by a thread that is not inside a call
GetTxHeight(th, t) ==
  /\ frames[th] = Idle
  /\ last' = Outcome("get_tx_height", {<<t, get_tx_height(Cur, t, 0).height>>})
  /\ Becomes(Cur)
  /\ UNCHANGED frames

NextRaceHistory ==
  \/ \E t \in HistoryTxIds, h \in HistoryHeights : AllIdle /\ ReceiveTxCallback(t, h)
  \/ \E t \in HistoryTxIds, info \in RaceInfos : AllIdle /\ AddVerifiedTx(t, info)
  \/ \E th \in Threads, addr \in IngestAddrs, hist \in HistoryHists :
       HistoryRetract(th, addr, hist)
  \/ \E th \in Threads : HistoryTest(th)
  \/ \E th \in Threads : HistoryWrite(th)
  \/ \E th \in Threads : HistoryGet(th)
  \/ \E th \in Threads : HistoryAdd(th)
  \/ \E th \in Threads : HistoryFees(th)
  \/ \E th \in Threads, t \in HistoryTxIds : GetTxHeight(th, t)

SpecRaceHistory == Init /\ [][NextRaceHistory]_vars

(***************************************************************************)
(* The query engine over a wallet of addresses A and B that learns of T1,  *)
(* of T3, which spends T1's output to A, and of the coinbase T5, from the  *)
(* server, from the verifier and from the user.                            *)
(***************************************************************************)
QueryTxIds == {"T1", "T3", "T5"}
QueryHeights == {TX_HEIGHT_UNCONF_PARENT, TX_HEIGHT_UNCONFIRMED, MaxHeight}
\* the user removes T1, whose output T3 spends
RemovedTxIds == {"T1"}
\* a coinbase is the first transaction of its block
QueryInfos(t) ==
  {info \in PositionedInfos : info.txpos = IF t \in CoinbaseTxIds THEN 0 ELSE 1}

NextQuery ==
  \/ \E a \in IngestAddrs : AddAddress(a)
  \/ \E t \in QueryTxIds, h \in QueryHeights : ReceiveTxCallback(t, h)
  \/ \E t \in QueryTxIds : AddTransaction(t, TRUE)
  \/ \E t \in RemovedTxIds : RemoveTransaction(t)
  \/ \E t \in QueryTxIds : \E info \in QueryInfos(t) : AddVerifiedTx(t, info)

SpecQuery == Init /\ [][NextQuery]_vars

(***************************************************************************)
(* get_balance and get_history on one thread, step by step, while another  *)
(* thread adds and removes transactions.  The queries hold no lock of      *)
(* their own: every get_addr_io, get_address_history and get_balance they  *)
(* call takes and releases the locks.                                      *)
(***************************************************************************)
RaceQueryTxIds == {"T1", "T6"}
RaceQueryDomains == {{"A", "B"}}

Zero == [c |-> 0, u |-> 0, x |-> 0]
Plus(a, b) == [c |-> a.c + b.c, u |-> a.u + b.u, x |-> a.x + b.x]

\* the outcome of a query: what it returned, and the engine's state when it
\* was called and when it returned
QueryOutcome(op, f, returned) ==
  [ret |-> op, txs |-> {}, domain |-> f.domain, returned |-> returned,
   start |-> f.start, end |-> Cur]

QueryReturns(th, op, returned) ==
  /\ last' = QueryOutcome(op, frames[th], returned)
  /\ Becomes(Cur)
  /\ frames' = [frames EXCEPT ![th] = Idle]

\* get_balance, lines 964-967; one query runs at a time
BalanceCall(th, domain) ==
  /\ AllIdle
  /\ Continues(th, Cur, [op |-> "get_balance", domain |-> domain, todo |-> domain,
                         sum |-> Zero, start |-> Cur])

\* lines 968-973: one more address, in the iteration order of the set, and
\* the return after the last one
BalanceAddr(th, addr) ==
  /\ frames[th].op = "get_balance"
  /\ addr \in frames[th].todo
  /\ IF frames[th].todo = {addr}
       THEN QueryReturns(th, "get_balance",
                         Plus(frames[th].sum, get_addr_balance(Cur, addr, MaxHeight)))
       ELSE Continues(th, Cur,
                      [frames[th] EXCEPT
                         !.todo = @ \ {addr},
                         !.sum = Plus(@, get_addr_balance(Cur, addr, MaxHeight))])

\* get_history, steps 1 and 2 (lines 584-619): the deltas, the heights and
\* the order of the rows
HistoryGather(th, domain, sorted) ==
  /\ AllIdle
  /\ sorted \in SortedHistories(Cur, HistoryTxs(Cur, domain))
  /\ Continues(th, Cur, [op |-> "get_history", domain |-> domain,
                         sorted |-> sorted, start |-> Cur])

\* get_history, step 3 (lines 620-644): get_balance, the walk and the check
HistoryBalance(th) ==
  /\ frames[th].op = "get_history"
  /\ QueryReturns(th, "get_history",
       Checked(WalkBack(frames[th].start, frames[th].domain, MaxHeight,
                        frames[th].sorted, 1,
                        BalanceSum(get_balance(Cur, frames[th].domain, MaxHeight)),
                        << >>)))

NextRaceQuery ==
  \/ \E a \in Addrs : AllIdle /\ AddAddress(a)
  \/ \E th \in Threads, t \in RaceQueryTxIds : Calls(th, AddTransaction(t, TRUE))
  \/ \E th \in Threads, t \in RaceQueryTxIds : Calls(th, RemoveTransaction(t))
  \/ \E th \in Threads, domain \in RaceQueryDomains : BalanceCall(th, domain)
  \/ \E th \in Threads, addr \in Addrs : BalanceAddr(th, addr)
  \/ \E th \in Threads, domain \in RaceQueryDomains :
       \E sorted \in SortedHistories(Cur, HistoryTxs(Cur, domain)) :
         HistoryGather(th, domain, sorted)
  \/ \E th \in Threads : HistoryBalance(th)

SpecRaceQuery == Init /\ [][NextRaceQuery]_vars

(***************************************************************************)
(* The change signal of an address.  _address_history_changed_events[addr] *)
(* is an asyncio.Event: wait() suspends the coroutine on a future while    *)
(* the event is not set, set() resolves the futures of the waiters that    *)
(* are not done, and a resolved coroutine goes on when the loop runs it.   *)
(* set() and clear() follow each other with no suspension point in         *)
(* between, so no coroutine finds the event set.  The coroutines are the   *)
(* members of Threads; released counts the times the future was resolved.  *)
(***************************************************************************)
SignalTxIds == {"T1", "T2"}

Waiting(f) == f.op = "wait_for_address_history_to_change"

\* Faulty variant: a change of one address wakes the waiters of all.
Notified_any_address(f, marked) ==
  [th \in DOMAIN f |->
     IF Waiting(f[th]) /\ marked # {} /\ f[th].released = 0
       THEN [f[th] EXCEPT !.released = @ + 1]
       ELSE f[th]]

\* _mark_address_history_changed(addr) for every addr of marked
Notified(f, marked) ==
  [th \in DOMAIN f |->
     IF Waiting(f[th]) /\ f[th].addr \in marked /\ f[th].released = 0
       THEN [f[th] EXCEPT !.released = @ + 1]
       ELSE f[th]]

\* wait_for_address_history_to_change(addr), up to the suspension
Wait(th, addr) ==
  /\ frames[th] = Idle
  /\ IF is_mine(Cur, addr)
       THEN Continues(th, Cur, [op |-> "wait_for_address_history_to_change",
                                addr |-> addr, released |-> 0])
       ELSE Lands(Cur, "AssertionError", {})

\* the loop runs a coroutine whose future is resolved: the call returns
Resume(th) ==
  /\ Waiting(frames[th])
  /\ frames[th].released > 0
  /\ Returns(th, Cur, "changed", {frames[th].addr})

\* the call lands and the coroutines waiting on the addresses it marked are
\* released
LandsAndNotifies(r) ==
  /\ last' = Outcome(r.ret, r.removed)
  /\ Becomes(r.s)
  /\ frames' = Notified(frames, r.s.marked)

AddTransactionNotifying(t) == LandsAndNotifies(add_transaction(Cur, t, TRUE))

NextSignal ==
  \/ \E a \in Addrs : AddAddress(a)
  \/ \E th \in Threads, addr \in Addrs : Wait(th, addr)
  \/ \E t \in SignalTxIds : AddTransactionNotifying(t)
  \/ \E th \in Threads : Resume(th)

SpecSignal == Init /\ [][NextSignal]_vars

(***************************************************************************)
(* The cached local height.  with_local_height_cached wraps get_history,   *)
(* get_addr_balance and get_utxos; get_history reaches get_addr_balance    *)
(* through get_balance, so the wrapper nests.  threadlocal_cache is a      *)
(* threading.local: each thread sees its own slot.  The network thread     *)
(* moves the height of the local chain at any time.                        *)
(***************************************************************************)
DecoratedQueries == {"get_history", "get_addr_balance", "get_utxos"}
\* the decorated queries a decorated query calls
NestedQueries(func) == IF func = "get_history" THEN {"get_addr_balance"} ELSE {}
\* the reads of one outermost call that the model follows
MaxReads == 2

\* Python's truth value of the slot: None and 0 are false
Truthy(val) == val # << >> /\ val[1] # 0

\* get_local_height, lines 734-739
get_local_height(cache, net) == IF cache # << >> THEN cache[1] ELSE net

\* line 564: orig_val or self.get_local_height()
CachedOnEntry(orig_val, net) ==
  IF Truthy(orig_val) THEN orig_val ELSE << get_local_height(orig_val, net) >>

\* Faulty variant: the finally clause clears the slot.
RestoredOnExit_cleared(orig_val) == << >>

\* line 568: the finally clause
RestoredOnExit(orig_val) == orig_val

InDecorated(f) == f.op = "with_local_height_cached"

HeightStep(th, f, cache, ret) ==
  /\ frames' = [frames EXCEPT ![th] = f]
  /\ threadlocal_cache' = [threadlocal_cache EXCEPT ![th] = cache]
  /\ last' = Outcome(ret, {})
  /\ UNCHANGED << transactions, txi, txo, spent_outpoints, history_local,
                  history, verified_tx, unverified_tx, tx_fees, cached_fee,
                  network >>

\* the network thread learns of a longer or of another chain
NetworkHeight(h) ==
  /\ h # network
  /\ network' = h
  /\ UNCHANGED << transactions, txi, txo, spent_outpoints, history_local,
                  history, verified_tx, unverified_tx, tx_fees, cached_fee, last, frames,
                  threadlocal_cache >>

\* lines 563-564 of an outermost call: the frame keeps the slot as it was
\* before the call and the height the call starts with
EnterDecorated(th, func) ==
  /\ frames[th] = Idle
  /\ HeightStep(th,
       [op |-> "with_local_height_cached",
        stack |-> << [func |-> func, orig_val |-> threadlocal_cache[th]] >>,
        before |-> threadlocal_cache[th],
        entry |-> CachedOnEntry(threadlocal_cache[th], network),
        seen |-> << >>],
       CachedOnEntry(threadlocal_cache[th], network), "entered")

\* lines 563-564 of a call made by the body of a decorated call
EnterNested(th, func) ==
  /\ InDecorated(frames[th])
  /\ func \in NestedQueries(frames[th].stack[Len(frames[th].stack)].func)
  /\ HeightStep(th,
       [frames[th] EXCEPT !.stack =
          Append(@, [func |-> func, orig_val |-> threadlocal_cache[th]])],
       CachedOnEntry(threadlocal_cache[th], network), "entered")

\* the body calls get_local_height (lines 745, 927, 957)
ReadHeight(th) ==
  /\ InDecorated(frames[th])
  /\ Len(frames[th].seen) < MaxReads
  /\ HeightStep(th,
       [frames[th] EXCEPT !.seen =
          Append(@, get_local_height(threadlocal_cache[th], network))],
       threadlocal_cache[th], "get_local_height")

\* lines 565-568: the function returns or raises, the finally clause runs
ExitDecorated(th, ret) ==
  /\ InDecorated(frames[th])
  /\ HeightStep(th,
       IF Len(frames[th].stack) = 1 THEN Idle
       ELSE [frames[th] EXCEPT !.stack = SubSeq(@, 1, Len(@) - 1)],
       RestoredOnExit(frames[th].stack[Len(frames[th].stack)].orig_val),
       ret)

NextHeight ==
  \/ \E h \in LocalHeights : NetworkHeight(h)
  \/ \E th \in Threads, func \in DecoratedQueries : EnterDecorated(th, func)
  \/ \E th \in Threads, func \in DecoratedQueries : EnterNested(th, func)
  \/ \E th \in Threads : ReadHeight(th)
  \/ \E th \in Threads, ret \in {"returned", "raised"} : ExitDecorated(th, ret)

SpecHeight == Init /\ [][NextHeight]_vars

(***************************************************************************)
(* The wallet delta and the fee of the payment T8, whose coins T7 brings   *)
(* in.  The wallet comes to watch A and B, before or after it learns of    *)
(* the transactions; the server lists T8 in the history of A and reports   *)
(* the fee T8 pays.                                                        *)
(***************************************************************************)
DeltaHists == {<< >>, << <<"T8", TX_HEIGHT_UNCONFIRMED>> >>}
DeltaFees == [t \in {"T8"} |-> 100]

GetWalletDelta(t) ==
  Lands(Cur, "get_wallet_delta",
        {<<t, get_wallet_delta(Cur, t).is_relevant, get_wallet_delta(Cur, t).is_mine,
           get_wallet_delta(Cur, t).v, get_wallet_delta(Cur, t).fee>>})

GetTxFee(t) ==
  Lands(get_tx_fee(Cur, t).s, "get_tx_fee", {<<t, get_tx_fee(Cur, t).fee>>})

NextDelta ==
  \/ \E a \in Addrs : AddAddress(a)
  \/ \E t \in PaymentTxIds : AddTransaction(t, TRUE)
  \/ \E t \in PaymentTxIds : RemoveTransaction(t)
  \/ \E hist \in DeltaHists : ReceiveHistoryCallback("A", hist, DeltaFees)
  \/ \E t \in PaymentTxIds : GetWalletDelta(t)
  \/ \E t \in PaymentTxIds : GetTxFee(t)

SpecDelta == Init /\ [][NextDelta]_vars

(***************************************************************************)
(* The ingest engine of a wallet that is closed and opened again: at any   *)
(* time the wallet saves, and a new engine is built from the storage.      *)
(***************************************************************************)
\* stop_threads (lines 180-191), then __init__ on the same storage
Restart == LandsState(load_and_cleanup(Storage(Cur)))

NextReload ==
  \/ \E a \in IngestAddrs : AddAddress(a)
  \/ \E t \in TxIds : AddTransaction(t, TRUE)
  \/ \E t \in TxIds : RemoveTransaction(t)
  \/ \E t \in ReportedTxIds, h \in IngestHeights : ReceiveTxCallback(t, h)
  \/ \E addr \in IngestAddrs, hist \in IngestHists :
       ReceiveHistoryCallback(addr, hist, EmptyDict)
  \/ Restart

SpecReload == Init /\ [][NextReload]_vars

(***************************************************************************)
(* Properties of the index (ingest engine)                                 *)
(***************************************************************************)
\* C1: after any sequence of add_transaction, remove_transaction,
\* receive_tx_callback, receive_history_callback and clear_history from an
\* empty wallet, no two distinct transactions held in `transactions` have an
\* input spending the same outpoint.
C1_NoDoubleSpend ==
  \A t1, t2 \in transactions : t1 # t2 => Outpoints(t1) \cap Outpoints(t2) = {}

\* T1 was accepted over the stored T2, which spends the same outpoint X:0
C1_Witness ==
  /\ last.ret = "True"
  /\ "T2" \in last.txs
  /\ "T1" \in transactions

\* C2: after any such sequence every entry spent_outpoints[h][n] = s has s
\* in `transactions`, and the assertion of get_conflicting_transactions has
\* never failed.
C2_SpendersKnown ==
  /\ \A h \in DOMAIN spent_outpoints : \A n \in DOMAIN spent_outpoints[h] :
       spent_outpoints[h][n] \in transactions
  /\ last.ret # "AssertionError"

\* T1 and its child T3 were evicted and spent_outpoints still has entries
C2_Witness ==
  /\ {"T1", "T3"} \subseteq last.txs
  /\ \E h \in DOMAIN spent_outpoints : DOMAIN spent_outpoints[h] # {}

\* C3: after any sequence of add_transaction (re-adding included),
\* remove_transaction, receive_history_callback and clear_history, for every
\* address a, history_local[a] is exactly the set of txids t such that a is a
\* key of txi[t] or of txo[t].
C3_LocalHistoryExact ==
  \A a \in Addrs \cup DOMAIN history_local :
    Get(history_local, a, {}) =
      {t \in TxIds : a \in DOMAIN Get(txi, t, EmptyDict) \cup DOMAIN Get(txo, t, EmptyDict)}

\* the transactions of the wallet that directly conflict with t: they spend
\* an outpoint t spends
Conflicting(t) == {u \in transactions \ {t} : Outpoints(u) \cap Outpoints(t) # {}}

\* the height get_tx_height reports for t
Height(t) == TxHeight(Cur, t)

\* cases (a) and (b) of the decision table: the new transaction t loses
LosesTo(t, C) ==
  \/ (\E u \in C : Height(u) > 0) /\ Height(t) <= 0
  \/ (\E u \in C : Height(u) \in {TX_HEIGHT_UNCONFIRMED, TX_HEIGHT_UNCONF_PARENT})
       /\ Height(t) = TX_HEIGHT_LOCAL

\* the input or output addresses of t that belong to the wallet
MineOf(t) ==
  {Tx[t].outputs[i].address :
     i \in {j \in 1..Len(Tx[t].outputs) : Tx[t].outputs[j].type = "ADDRESS"}}
  \cup {Tx[t].inputs[i].address :
     i \in {j \in 1..Len(Tx[t].inputs) : Tx[t].inputs[j].address # None}}
  \cup {a \in Addrs : \E i \in 1..Len(Tx[t].inputs) :
          /\ Tx[t].inputs[i].address = None
          /\ Tx[t].inputs[i].prevout_hash \in DOMAIN txo
          /\ a \in DOMAIN txo[Tx[t].inputs[i].prevout_hash]
          /\ \E k \in 1..Len(txo[Tx[t].inputs[i].prevout_hash][a]) :
               txo[Tx[t].inputs[i].prevout_hash][a][k][1] = Tx[t].inputs[i].prevout_n}

Unrelated(t) == MineOf(t) \cap DOMAIN history = {}

\* the decision add_transaction(t, allow_unrelated) has to take on conflicts
DecidesRight(t, allow_unrelated) ==
  LET r == add_transaction(Cur, t, allow_unrelated) IN
  IF LosesTo(t, Conflicting(t))
    THEN /\ r.ret = "False"
         /\ t \notin r.s.transactions
         /\ Conflicting(t) \subseteq r.s.transactions
    ELSE r.ret = "True"

\* C5 as stated: in every state, add_transaction(t) on a t with conflicts
\* returns false, does not store t and keeps every conflicting transaction in
\* cases (a) and (b), and returns true in every other case with conflicts.
C5_Original ==
  \A t \in TxIds, allow_unrelated \in BOOLEAN :
    Conflicting(t) # {} => DecidesRight(t, allow_unrelated)

\* C5, amended: the same, for the calls that are not rejected as unrelated
\* (allow_unrelated is true, or t has an input or output of the wallet).
C5_Amended ==
  \A t \in TxIds, allow_unrelated \in BOOLEAN :
    Conflicting(t) # {} /\ (allow_unrelated \/ ~Unrelated(t))
      => DecidesRight(t, allow_unrelated)

\* T2 was offered while T1, confirmed, and T4 hold its outpoints, and dropped
C5_Witness ==
  /\ last.ret = "False"
  /\ Conflicting("T2") = {"T1", "T4"}
  /\ Height("T1") > 0
  /\ Height("T2") <= 0
  /\ "T2" \notin transactions

\* the transactions that spend, via spent_outpoints, an output of a member of
\* S or of one of its descendants, together with S
RECURSIVE WithDescendants(_)
WithDescendants(S) ==
  LET more == S \cup {w \in TxIds : \E u \in S \cap DOMAIN spent_outpoints :
                        \E n \in DOMAIN spent_outpoints[u] : spent_outpoints[u][n] = w}
  IN IF more = S THEN S ELSE WithDescendants(more)

\* C6: when add_transaction accepts t despite a non-empty conflict set C, on
\* return t is in `transactions`, and every member of C and every transitive
\* descendant of C is absent from transactions, txi and txo and is the
\* spender of no spent_outpoints entry.
C6_Eviction ==
  \A t \in TxIds, allow_unrelated \in BOOLEAN :
    LET r == add_transaction(Cur, t, allow_unrelated) IN
    Conflicting(t) # {} /\ r.ret = "True" =>
      /\ t \in r.s.transactions
      /\ \A u \in WithDescendants(Conflicting(t)) :
           /\ u \notin r.s.transactions
           /\ u \notin DOMAIN r.s.txi
           /\ u \notin DOMAIN r.s.txo
           /\ SpentBy(r.s.spent_outpoints, u) = {}

\* T2 was accepted and T1 went with its child T3
C6_Witness ==
  /\ last.ret = "True"
  /\ last.txs = {"T1", "T3"}
  /\ "T2" \in transactions
  /\ transactions \cap {"T1", "T3"} = {}

\* C7: add_transaction(t, allow_unrelated=false) on a t none of whose inputs
\* resolves to an address of the wallet and none of whose outputs pays one
\* fails with UnrelatedTransaction and leaves every container as it was.
C7_UnrelatedNoChange ==
  \A t \in TxIds :
    Unrelated(t) =>
      LET r == add_transaction(Cur, t, FALSE) IN
      /\ r.ret = "UnrelatedTransactionException"
      /\ r.s.transactions = transactions
      /\ r.s.txi = txi
      /\ r.s.txo = txo
      /\ r.s.spent_outpoints = spent_outpoints
      /\ r.s.history_local = history_local
      /\ r.s.verified_tx = verified_tx
      /\ r.s.unverified_tx = unverified_tx
      /\ r.s.history = history

\* a transaction was refused as unrelated while T1 is held and T2, which
\* spends an outpoint of T1, is unrelated
C7_Witness ==
  /\ last.ret = "UnrelatedTransactionException"
  /\ "T1" \in transactions
  /\ Unrelated("T2")

(***************************************************************************)
(* Properties of the verification coordinator                              *)
(***************************************************************************)
\* C4: after any sequence of add_unverified_tx, remove_unverified_tx,
\* add_verified_tx, undo_verifications, receive_history_callback,
\* receive_tx_callback and clear_history, no txid is a key of both verified_tx
\* and unverified_tx.
C4_Disjoint == DOMAIN verified_tx \cap DOMAIN unverified_tx = {}

\* a reorg demoted one transaction while another one stays verified
C4_Witness ==
  /\ last.txs # {}
  /\ DOMAIN verified_tx # {}
  /\ DOMAIN unverified_tx # {}

\* the txids of an address history
TxidsOf(hist) == {hist[i][1] : i \in 1..Len(hist)}

\* C8: receive_history_callback(addr, new_hist) retracts against the stored
\* server history: every txid with an entry in the old history[addr] and no
\* entry in new_hist is, after the call, in neither verified_tx nor
\* unverified_tx, whether or not its body was ever downloaded.
C8_RetractsFromServerHistory ==
  \A addr \in IngestAddrs, hist \in VerifyHists :
    LET s1 == receive_history_callback(Cur, addr, hist, EmptyDict) IN
    \A t \in TxidsOf(Get(history, addr, << >>)) \ TxidsOf(hist) :
      t \notin DOMAIN s1.verified_tx \cup DOMAIN s1.unverified_tx

\* C9 as stated: add_unverified_tx(t, h) removes a verified t from verified_tx
\* when h is UNCONFIRMED or UNCONF_PARENT, and in every other case (a verified
\* t with h > 0 included) sets unverified_tx[t] = h.
C9_Original ==
  \A t \in CoordTxIds, h \in Heights :
    LET s1 == add_unverified_tx(Cur, t, h) IN
    IF t \in DOMAIN verified_tx /\ h \in {TX_HEIGHT_UNCONFIRMED, TX_HEIGHT_UNCONF_PARENT}
      THEN t \notin DOMAIN s1.verified_tx
      ELSE t \in DOMAIN s1.unverified_tx /\ s1.unverified_tx[t] = h

\* C9, amended: a verified t is removed from verified_tx when h is UNCONFIRMED
\* or UNCONF_PARENT and the call changes nothing when h is any other height;
\* only for a t that is not verified does it set unverified_tx[t] = h.
C9_Amended ==
  \A t \in CoordTxIds, h \in Heights :
    LET s1 == add_unverified_tx(Cur, t, h) IN
    IF t \in DOMAIN verified_tx
      THEN IF h \in {TX_HEIGHT_UNCONFIRMED, TX_HEIGHT_UNCONF_PARENT}
             THEN /\ t \notin DOMAIN s1.verified_tx
                  /\ s1.unverified_tx = unverified_tx
             ELSE s1 = Cur
      ELSE /\ t \in DOMAIN s1.unverified_tx /\ s1.unverified_tx[t] = h
           /\ s1.verified_tx = verified_tx

\* a verified transaction was reported at a block height and kept as it was
C9_Witness ==
  /\ last.ret = "kept"
  /\ DOMAIN verified_tx # {}

\* C10: undo_verifications(chain, height) demotes exactly the verified
\* transactions whose verified height is >= height and whose header at that
\* height is absent from chain or hashes to something else than the stored
\* header_hash: each leaves verified_tx and gets unverified_tx[t] = its old
\* verified height (get_tx_height then reports that height with conf = 0);
\* every other verified transaction stays verified, and the returned set is
\* exactly the demoted txids.
C10_UndoExact ==
  \A blockchain \in Blockchains, height \in 1..(MaxHeight + 1) :
    LET r == undo_verifications(Cur, blockchain, height)
        demoted == {t \in DOMAIN verified_tx :
                      /\ verified_tx[t].height >= height
                      /\ blockchain[verified_tx[t].height] # verified_tx[t].header_hash}
    IN /\ r.txs = demoted
       /\ \A t \in demoted :
            /\ t \notin DOMAIN r.s.verified_tx
            /\ t \in DOMAIN r.s.unverified_tx
            /\ r.s.unverified_tx[t] = verified_tx[t].height
            /\ \A local_height \in 0..(MaxHeight + 1) :
                 get_tx_height(r.s, t, local_height) =
                   [height |-> verified_tx[t].height, conf |-> 0]
       /\ \A t \in DOMAIN verified_tx \ demoted :
            t \in DOMAIN r.s.verified_tx /\ r.s.verified_tx[t] = verified_tx[t]

\* a reorg demoted T1 to its old height while T2 stays verified
C10_Witness ==
  /\ last.txs = {"T1"}
  /\ "T2" \in DOMAIN verified_tx
  /\ "T1" \in DOMAIN unverified_tx
  /\ unverified_tx["T1"] = MaxHeight

(***************************************************************************)
(* Properties of get_tx_height                                             *)
(***************************************************************************)
Max(a, b) == IF a >= b THEN a ELSE b

\* what a caller is told about txid when the local chain has height lh
Reported(s, txid, lh) ==
  IF txid \in DOMAIN s.verified_tx
    THEN [height |-> s.verified_tx[txid].height,
          conf |-> Max(lh - s.verified_tx[txid].height + 1, 0)]
  ELSE IF txid \in DOMAIN s.unverified_tx
    THEN [height |-> s.unverified_tx[txid], conf |-> 0]
  ELSE [height |-> TX_HEIGHT_LOCAL, conf |-> 0]

ReportsRight ==
  \A txid \in TxIds, lh \in LocalHeights :
    get_tx_height(Cur, txid, lh) = Reported(Cur, txid, lh)

\* add_verified_tx(txid, M) leaves txid verified with M and not unverified
VerifiedOnReturn ==
  \A txid \in TxIds, info \in MinedInfos :
    LET r == add_verified_tx(Cur, txid, info) IN
      /\ txid \notin DOMAIN r.unverified_tx
      /\ txid \in DOMAIN r.verified_tx /\ r.verified_tx[txid] = info
      /\ \A lh \in LocalHeights :
           get_tx_height(r, txid, lh) =
             [height |-> info.height, conf |-> Max(lh - info.height + 1, 0)]

\* the states one call can leave that neither demotes txid (add_unverified_tx
\* or receive_tx_callback at a mempool height, undo_verifications), nor
\* retracts it (receive_history_callback), nor verifies it again, nor clears
\* the history
AfterOtherCalls(s, txid) ==
  {add_transaction(s, t, au).s : t \in TxIds, au \in BOOLEAN}
    \cup {remove_transaction(s, t) : t \in TxIds}
    \cup {add_address(s, a) : a \in Addrs}
    \cup {add_unverified_tx(s, e[1], e[2]) :
            e \in {x \in TxIds \X Heights : x[1] # txid \/ x[2] > 0}}
    \cup {remove_unverified_tx(s, t, h) : t \in TxIds, h \in Heights}
    \cup {add_verified_tx(s, e[1], e[2]) :
            e \in {x \in TxIds \X MinedInfos : x[1] # txid}}
    \cup {receive_tx_callback(s, e[1], e[2]).s :
            e \in {x \in TxIds \X Heights : x[1] # txid \/ x[2] > 0}}

StaysVerified(s, txid, after) ==
  \A r \in after :
    /\ txid \notin DOMAIN r.unverified_tx
    /\ txid \in DOMAIN r.verified_tx
    /\ r.verified_tx[txid] = s.verified_tx[txid]

C12_CompareAndRemove ==
  \A t \in TxIds, h \in Heights :
    LET r == remove_unverified_tx(Cur, t, h) IN
      IF t \in DOMAIN unverified_tx /\ unverified_tx[t] = h
        THEN /\ DOMAIN r.unverified_tx = DOMAIN unverified_tx \ {t}
             /\ \A u \in DOMAIN r.unverified_tx : r.unverified_tx[u] = unverified_tx[u]
             /\ [r EXCEPT !.unverified_tx = unverified_tx] = Cur
        ELSE r = Cur

\* thread t2 called remove_unverified_tx(T1, UNCONFIRMED) while T1 was stored
\* at height MaxHeight: the entry is still there
C12_Witness ==
  /\ last = Outcome("left", {"T1"})
  /\ "T1" \in DOMAIN unverified_tx
  /\ unverified_tx["T1"] = MaxHeight

\* C14: when add_unverified_tx(txid, h) runs concurrently with
\* add_verified_tx(txid, M), or with an undo_verifications that removes
\* txid from verified_tx, txid never ends up in both verified_tx and
\* unverified_tx, and add_unverified_tx never fails because txid left
\* verified_tx between its membership test and its removal.
C14_NoRace ==
  /\ DOMAIN verified_tx \cap DOMAIN unverified_tx = {}
  /\ last.ret # "KeyError"

(***************************************************************************)
(* Properties of the locks                                                 *)
(***************************************************************************)
\* the next step of th is to take l
Takes(th, l) ==
  /\ frames[th].op \in LockMethods
  /\ Instr(frames[th]) = <<"acquire", l>>

Blocked(th) == \E l \in LockNames : Takes(th, l) /\ ~Free(th, l)

\* C13: no thread acquires self.lock while it holds self.transaction_lock
\* unless it already holds self.lock; and no interleaving of the methods on
\* different threads deadlocks on the two locks: while some thread is inside
\* a method, some thread inside a method can take its next step.
C13_LockOrder ==
  /\ \A th \in Threads :
       Takes(th, "lock") /\ Held(frames[th], "transaction_lock") > 0
         => Held(frames[th], "lock") > 0
  /\ (\E th \in Threads : frames[th] # Idle)
       => \E th \in Threads : frames[th] # Idle /\ ~Blocked(th)

\* t1 is inside add_transaction, holds both locks and takes self.lock again
\* for get_tx_height, while t2 waits for the index lock in remove_transaction
C13_Witness ==
  /\ frames["t1"].op = "add_transaction"
  /\ Held(frames["t1"], "transaction_lock") > 0
  /\ Takes("t1", "lock")
  /\ frames["t2"].op = "remove_transaction"
  /\ Blocked("t2")

(***************************************************************************)
(* Properties of receive_history_callback under concurrent queries         *)
(***************************************************************************)
\* what the queries get_tx_height and get_address_history answer in state s
Answers(s) ==
  [height |-> [t \in TxIds |-> get_tx_height(s, t, 0).height],
   local |-> [a \in Addrs |-> get_address_history(s, a)]]

\* C15: receive_history_callback for an address is linearizable with respect
\* to concurrent queries: while the call is running, with no other writer,
\* every query is answered as in the state before the call or as in the state
\* after it, never as in an intermediate state (a transaction of both the
\* old and the new history whose height changed is never reported as LOCAL).
C15_Linearizable ==
  \A th \in Threads :
    frames[th].op = "receive_history_callback" =>
      /\ \A t \in TxIds :
           Answers(Cur).height[t] \in
             {Answers(frames[th].before).height[t], Answers(frames[th].after).height[t]}
      /\ \A a \in Addrs :
           Answers(Cur).local[a] \in
             {Answers(frames[th].before).local[a], Answers(frames[th].after).local[a]}

(***************************************************************************)
(* Properties of the query engine                                          *)
(***************************************************************************)
RECURSIVE SumValues(_)
\* the sum of the values of a set of outputs <<tx_hash, n, v, is_cb>>
SumValues(outs) ==
  IF outs = {} THEN 0
  ELSE LET o == CHOOSE x \in outs : TRUE IN o[3] + SumValues(outs \ {o})

\* the outputs address has received: <<tx_hash, n, v, is_cb>>
OutputsTo(s, address) ==
  UNION {{<<t, o[1], o[2], o[3]>> :
            o \in Range(Get(Get(s.txo, t, EmptyDict), address, << >>))} :
         t \in Get(s.history_local, address, {})}

\* the transactions of the history of address that spend output o of it
SpendersOf(s, address, o) ==
  {t \in Get(s.history_local, address, {}) :
     \E i \in Get(Get(s.txi, t, EmptyDict), address, {}) : i[1] = <<o[1], o[2]>>}

Immature(s, o, local_height) ==
  o[4] /\ Reported(s, o[1], 0).height + COINBASE_MATURITY > local_height

SpentAt(s, address, o, confirmed) ==
  \E t \in SpendersOf(s, address, o) : (Reported(s, t, 0).height > 0) = confirmed

\* the balance of address as the rule of get_addr_balance gives it
BalanceRule(s, address, local_height) ==
  LET outs == OutputsTo(s, address) IN
  [x |-> SumValues({o \in outs : Immature(s, o, local_height)}),
   c |-> SumValues({o \in outs : ~Immature(s, o, local_height)
                                   /\ Reported(s, o[1], 0).height > 0})
           - SumValues({o \in outs : SpentAt(s, address, o, TRUE)}),
   u |-> SumValues({o \in outs : ~Immature(s, o, local_height)
                                   /\ Reported(s, o[1], 0).height <= 0})
           - SumValues({o \in outs : SpentAt(s, address, o, FALSE)})]

\* a wallet whose address A has received a single output of 100000, not of
\* a coinbase, in a transaction verified at height 100
SimpleReceive ==
  [transactions |-> {"T1"}, txi |-> [t \in {"T1"} |-> EmptyDict],
   txo |-> [t \in {"T1"} |-> [a \in {"A"} |-> << <<1, 100000, FALSE>> >>]],
   spent_outpoints |-> EmptyDict, history_local |-> [a \in {"A"} |-> {"T1"}],
   history |-> [a \in {"A"} |-> << >>],
   verified_tx |-> [t \in {"T1"} |-> [height |-> 100, header_hash |-> "H1", txpos |-> 1]],
   unverified_tx |-> EmptyDict, tx_fees |-> EmptyDict, err |-> None,
   marked |-> {}]

\* C19: get_addr_balance(addr) returns (c, u, x) where each received output
\* of value v at height tx_height counts into x if it is of a coinbase and
\* tx_height + COINBASE_MATURITY > local_height, else into c if
\* tx_height > 0, else into u; and each received output that is spent is
\* subtracted from c if the spending transaction has height > 0, else from
\* u.  A single output of 100000, not of a coinbase, at height 100 with
\* local_height 100 gives (100000, 0, 0).
C19_BalanceRule ==
  /\ \A address \in Addrs, local_height \in BalanceHeights :
       get_addr_balance(Cur, address, local_height)
         = BalanceRule(Cur, address, local_height)
  /\ get_addr_balance(SimpleReceive, "A", 100) = [c |-> 100000, u |-> 0, x |-> 0]

\* A holds the output of T1, verified, which the unconfirmed T3 spends, and
\* the output of the coinbase T5, mined at MaxHeight: immature on a chain of
\* height MaxHeight, mature COINBASE_MATURITY blocks later
C19_Witness ==
  /\ get_addr_balance(Cur, "A", MaxHeight) = [c |-> 5, u |-> -5, x |-> 3]
  /\ get_addr_balance(Cur, "A", MaxHeight + COINBASE_MATURITY) = [c |-> 8, u |-> -5, x |-> 0]

\* the balance get_history starts from, walked back past every transaction
WalkedBack(s, domain, local_height) ==
  BalanceSum(get_balance(s, domain, local_height))
    - Total({<<t, DeltaOn(s, domain, t)>> : t \in HistoryTxs(s, domain)}, 2)

\* one row per transaction, each balance the previous one plus the row's
\* delta, the last one the balance of the domain
RunningBalances(s, domain, local_height, r) ==
  /\ Len(r) = Cardinality(HistoryTxs(s, domain))
  /\ {r[i].tx_hash : i \in DOMAIN r} = HistoryTxs(s, domain)
  /\ \A i \in DOMAIN r :
       /\ r[i].height = Reported(s, r[i].tx_hash, local_height).height
       /\ i > 1 => r[i].balance = r[i - 1].balance + r[i].delta
       /\ i = Len(r) => r[i].balance = BalanceSum(get_balance(s, domain, local_height))

\* 1: verified, 2: unconfirmed (in unverified_tx), 3: local
Class(s, t) ==
  IF t \in DOMAIN s.verified_tx THEN 1
  ELSE IF t \in DOMAIN s.unverified_tx THEN 2 ELSE 3

\* verified transactions first, by (height, txpos), then the unconfirmed
\* ones, then the local ones
OrderedByClass(s, r) ==
  \A i, j \in DOMAIN r :
    i < j =>
      /\ Class(s, r[i].tx_hash) <= Class(s, r[j].tx_hash)
      /\ Class(s, r[i].tx_hash) = 1 /\ Class(s, r[j].tx_hash) = 1 =>
           ~TupleLess(<<s.verified_tx[r[j].tx_hash].height, s.verified_tx[r[j].tx_hash].txpos>>,
                      <<s.verified_tx[r[i].tx_hash].height, s.verified_tx[r[i].tx_hash].txpos>>)

\* <<1, height, txpos>> for a transaction in a block, verified or not (an
\* unverified one counts as first of its block), <<2, 0, 0>> for one in the
\* mempool at height 0, <<3, 0, 0>> for one with an unconfirmed parent and
\* for a local one
Rank(s, t) ==
  IF t \in DOMAIN s.verified_tx
    THEN <<1, s.verified_tx[t].height, s.verified_tx[t].txpos>>
  ELSE IF t \in DOMAIN s.unverified_tx /\ s.unverified_tx[t] > 0
    THEN <<1, s.unverified_tx[t], 0>>
  ELSE IF t \in DOMAIN s.unverified_tx /\ s.unverified_tx[t] = TX_HEIGHT_UNCONFIRMED
    THEN <<2, 0, 0>>
  ELSE <<3, 0, 0>>

RankLess(a, b) ==
  \/ a[1] < b[1]
  \/ a[1] = b[1] /\ TupleLess(<<a[2], a[3]>>, <<b[2], b[3]>>)

OrderedByRank(s, r) ==
  \A i, j \in DOMAIN r :
    i < j => ~RankLess(Rank(s, r[j].tx_hash), Rank(s, r[i].tx_hash))

\* address A with Tc verified at height 500 (+100), Tb in the mempool (+20)
\* and the local Ta, which spends the output of Tc and pays 70 back (-30)
HistoryOrdering ==
  [transactions |-> {"Ta", "Tb", "Tc"},
   txi |-> [t \in {"Ta", "Tb", "Tc"} |->
              IF t = "Ta" THEN [a \in {"A"} |-> {<< <<"Tc", 0>>, 100 >>}]
              ELSE EmptyDict],
   txo |-> [t \in {"Ta", "Tb", "Tc"} |->
              [a \in {"A"} |-> << <<0, CASE t = "Ta" -> 70 [] t = "Tb" -> 20
                                          [] t = "Tc" -> 100, FALSE>> >>]],
   spent_outpoints |-> EmptyDict,
   history_local |-> [a \in {"A"} |-> {"Ta", "Tb", "Tc"}],
   history |-> [a \in {"A"} |-> << >>],
   verified_tx |-> [t \in {"Tc"} |-> [height |-> 500, header_hash |-> "H1", txpos |-> 1]],
   unverified_tx |-> [t \in {"Tb"} |-> 0], tx_fees |-> EmptyDict, err |-> None,
   marked |-> {}]

HistoryOrderingRight ==
  \A r \in get_history(HistoryOrdering, {"A"}, 500) :
    /\ [i \in DOMAIN r |-> r[i].tx_hash] = <<"Tc", "Tb", "Ta">>
    /\ [i \in DOMAIN r |-> r[i].delta] = <<100, 20, -30>>
    /\ [i \in DOMAIN r |-> r[i].balance] = <<100, 120, 90>>

HistoryDomains == SUBSET Addrs \ {{}}

\* C20 as stated: get_history(domain) returns [] exactly when the running
\* balance, walked back past the oldest row, is not 0, and otherwise one row
\* per transaction in chronological order: verified transactions first, by
\* (height, txpos), then unconfirmed ones, then local ones; each row's
\* balance is the previous row's plus its own delta and the last row's is
\* c + u + x of get_balance(domain).  Tc at height 500 (+100), Tb at height
\* 0 (+20) and the local Ta (-30) give [Tc, Tb, Ta] with balances
\* [100, 120, 90].
C20_Original ==
  /\ \A domain \in HistoryDomains, local_height \in {0, MaxHeight} :
       \A r \in get_history(Cur, domain, local_height) :
         IF WalkedBack(Cur, domain, local_height) # 0 THEN r = << >>
         ELSE /\ RunningBalances(Cur, domain, local_height, r)
              /\ OrderedByClass(Cur, r)
  /\ HistoryOrderingRight

\* C20, amended: as above, with the rows in the order of get_txpos:
\* transactions in a block first, by (height, txpos), an unverified one
\* counting as (height, 0) whether or not verified ones of later blocks
\* exist; then the transactions at height 0; then, in no determined order
\* among them, those with an unconfirmed parent (height -1) and the local
\* ones.
C20_Amended ==
  /\ \A domain \in HistoryDomains, local_height \in {0, MaxHeight} :
       \A r \in get_history(Cur, domain, local_height) :
         IF WalkedBack(Cur, domain, local_height) # 0 THEN r = << >>
         ELSE /\ RunningBalances(Cur, domain, local_height, r)
              /\ OrderedByRank(Cur, r)
  /\ HistoryOrderingRight

\* the history of A lists the coinbase T5 and T1, verified in the same block,
\* and then the local T3
C20_Witness ==
  \E r \in get_history(Cur, {"A"}, MaxHeight) :
    /\ [i \in DOMAIN r |-> r[i].tx_hash] = <<"T5", "T1", "T3">>
    /\ [i \in DOMAIN r |-> r[i].height] = <<MaxHeight, MaxHeight, TX_HEIGHT_LOCAL>>
    /\ [i \in DOMAIN r |-> r[i].balance] = <<3, 8, 3>>

(***************************************************************************)
(* Properties of the queries under concurrent add_transaction              *)
(***************************************************************************)
\* the index the queries read
IndexOf(s) ==
  [transactions |-> s.transactions, txi |-> s.txi, txo |-> s.txo,
   history_local |-> s.history_local]

\* C16: add_transaction and remove_transaction are mutually exclusive with a
\* whole get_history(domain) or get_balance(domain) call: none takes effect
\* between the start and the end of the query; so a get_history over an
\* index that is consistent at its start and at its end never returns the
\* empty "not synchronized" result, and a get_balance over several addresses
\* returns the balance of the state at its start or at its end, never a
\* mixture.
C16_Exclusive ==
  /\ \A th \in Threads :
       frames[th].op \in {"get_balance", "get_history"}
         => IndexOf(Cur) = IndexOf(frames[th].start)
  /\ last.ret = "get_history"
       => \/ last.returned # << >>
          \/ HistoryTxs(last.start, last.domain) = {}
          \/ WalkedBack(last.start, last.domain, MaxHeight) # 0
          \/ WalkedBack(last.end, last.domain, MaxHeight) # 0
  /\ last.ret = "get_balance"
       => last.returned \in {get_balance(last.start, last.domain, MaxHeight),
                             get_balance(last.end, last.domain, MaxHeight)}

(***************************************************************************)
(* Properties of the change signal                                         *)
(***************************************************************************)
\* a change of addr releases, once, every coroutine that waits on addr and
\* leaves every other coroutine as it is
ReleasesWaitersOf(f, addr) ==
  \A th \in Threads :
    IF Waiting(f[th]) /\ f[th].addr = addr /\ f[th].released = 0
      THEN Notified(f, {addr})[th] = [f[th] EXCEPT !.released = 1]
      ELSE Notified(f, {addr})[th] = f[th]

\* a coroutine leaves its wait only when it has been released
LeavesReleased ==
  \A th \in Threads :
    Waiting(frames[th]) /\ ~Waiting(frames'[th]) => frames[th].released = 1

\* a coroutine that starts to wait is blocked, whatever was marked before
StartsBlocked ==
  \A th \in Threads :
    ~Waiting(frames[th]) /\ Waiting(frames'[th]) => frames'[th].released = 0

HeightCached ==
  \A th \in Threads :
    IF InDecorated(frames[th])
      THEN /\ threadlocal_cache[th] = frames[th].entry
           /\ \A i \in 1 .. Len(frames[th].seen) :
                << frames[th].seen[i] >> = frames[th].entry
      ELSE threadlocal_cache[th] = << >>

\* a decorated call that ends leaves the slot as it found it
SlotRestored ==
  \A th \in Threads :
    /\ InDecorated(frames[th]) /\ ~InDecorated(frames'[th])
         => threadlocal_cache'[th] = frames[th].before
    /\ InDecorated(frames[th]) /\ InDecorated(frames'[th])
         => threadlocal_cache'[th] = threadlocal_cache[th]

\* C18: for every decorated query the thread-local cached local_height after
\* the call returns or raises equals its value before the call; during an
\* outermost decorated call every get_local_height on that thread returns
\* the single value fetched at entry, also inside nested decorated calls and
\* also when the network height changes meanwhile; the cached values of the
\* other threads are unaffected.
C18_HeightCached ==
  /\ []HeightCached
  /\ [][SlotRestored]_vars
  /\ [][\A th \in Threads : \A other \in Threads \ {th} :
          frames'[th] # frames[th]
            => threadlocal_cache'[other] = threadlocal_cache[other]]_vars

\* t1 is inside get_addr_balance inside get_history, entered at height 0; the
\* network has moved on, t1 has read 0 twice, and t2 is inside a call that
\* was entered at another height
C18_Witness ==
  /\ InDecorated(frames["t1"]) /\ Len(frames["t1"].stack) = 2
  /\ frames["t1"].entry = << 0 >> /\ frames["t1"].seen = << 0, 0 >>
  /\ network = MaxHeight
  /\ InDecorated(frames["t2"]) /\ frames["t2"].entry = << 1 >>

(***************************************************************************)
(* Properties of get_wallet_delta and get_tx_fee                           *)
(***************************************************************************)
RECURSIVE SumSeq(_)
SumSeq(q) == IF q = << >> THEN 0 ELSE Head(q) + SumSeq(Tail(q))

\* the values the index records for the output txin spends, under an
\* address of the wallet
OwnedValues(s, txin) ==
  {o[2] : o \in {x \in UNION {Range(Get(s.txo, txin.prevout_hash, EmptyDict)[a]) :
                        a \in DOMAIN s.history
                                \cap DOMAIN Get(s.txo, txin.prevout_hash, EmptyDict)} :
                   x[1] = txin.prevout_n}}

InputsOwned(s, t) ==
  \A i \in 1..Len(Tx[t].inputs) : OwnedValues(s, Tx[t].inputs[i]) # {}

InputsTotal(s, t) ==
  SumSeq([i \in 1..Len(Tx[t].inputs) |->
            CHOOSE v \in OwnedValues(s, Tx[t].inputs[i]) : TRUE])

OutputsTotal(t) == SumSeq([i \in 1..Len(Tx[t].outputs) |-> Tx[t].outputs[i].value])

OutputsToWallet(s, t) ==
  SumSeq([i \in 1..Len(Tx[t].outputs) |->
            IF Tx[t].outputs[i].address \in DOMAIN s.history
              THEN Tx[t].outputs[i].value ELSE 0])

\* inputs of the wallet worth 1000, outputs worth 900, 100 of it to the wallet
FeeScenario(s, t) ==
  /\ InputsOwned(s, t)
  /\ InputsTotal(s, t) = 1000
  /\ OutputsTotal(t) = 900
  /\ OutputsToWallet(s, t) = 100

FeeScenarioGives(s, t, v, fee) ==
  FeeScenario(s, t) =>
    /\ get_wallet_delta(s, t) =
         [is_relevant |-> TRUE, is_mine |-> TRUE, v |-> v, fee |-> << fee >>]
    /\ get_tx_fee(s, t).fee = << fee >>

\* C21: for a transaction whose inputs are all wallet-owned with known
\* values totalling 1000 and whose outputs total 900, of which 100 pays a
\* wallet-owned address, get_wallet_delta returns (true, true, -800, 100)
\* and get_tx_fee returns 100.
C21_Original == \A t \in PaymentTxIds : FeeScenarioGives(Cur, t, -800, 100)

\* C21, with the amount the code computes: v = v_out_mine - v_in = -900
C21_Amended == \A t \in PaymentTxIds : FeeScenarioGives(Cur, t, -900, 100)

\* T8 is in the scenario and get_tx_fee has just returned (and cached) 100
C21_Witness ==
  /\ FeeScenario(Cur, "T8")
  /\ last = Outcome("get_tx_fee", {<<"T8", << 100 >> >>})
  /\ "T8" \in DOMAIN cached_fee

(***************************************************************************)
(* Properties of add_transaction and remove_transaction as a pair          *)
(***************************************************************************)
\* what save_transactions writes (lines 506-521)
Persisted(s) ==
  [transactions |-> s.transactions, txi |-> s.txi, txo |-> s.txo,
   tx_fees |-> s.tx_fees, addr_history |-> s.history,
   spent_outpoints |-> s.spent_outpoints]

\* t is new to the wallet, nothing the wallet holds spends an input or an
\* output of t, and t spends no output of a transaction the wallet holds
Isolated(s, t) ==
  /\ t \notin s.transactions
  /\ t \notin DOMAIN s.txi \cup DOMAIN s.txo
  /\ \A op \in Outpoints(t) :
       /\ op[2] \notin DOMAIN Get(s.spent_outpoints, op[1], EmptyDict)
       /\ op[1] \notin s.transactions \cup DOMAIN s.txo
  /\ DOMAIN Get(s.spent_outpoints, t, EmptyDict) = {}

\* C22: for any reachable state and any isolated transaction T,
\* add_transaction(txid, T, allow_unrelated=true) followed by
\* remove_transaction(txid) leaves transactions, txi, txo, tx_fees,
\* addr_history and spent_outpoints (its prevout-hash keys included) equal
\* to their values before the add.
C22_AddRemove ==
  \A t \in TxIds :
    Isolated(Cur, t) =>
      Persisted(remove_transaction(add_transaction(Cur, t, TRUE).s, t)) = Persisted(Cur)

(***************************************************************************)
(* Properties of saving and loading                                        *)
(***************************************************************************)
\* what the queries of the claim answer in state s
Answers_of(s, local_height) ==
  [get_tx_height |-> [t \in TxIds |-> get_tx_height(s, t, local_height)],
   get_addr_balance |-> [a \in Addrs |-> get_addr_balance(s, a, local_height)],
   get_addr_utxo |-> [a \in Addrs |-> get_addr_utxo(s, a)],
   get_history |-> get_history(s, DOMAIN s.history, local_height)]

\* C23: for any reachable state, saving and then constructing a new engine
\* from the same storage yields an engine whose get_tx_height,
\* get_addr_balance, get_addr_utxo and get_history return the same results
\* as before the save for every txid and address, the txids that were only
\* in unverified_tx and are listed in no address history included.
C23_RoundTrip ==
  \A local_height \in {0, MaxHeight} :
    Answers_of(load_and_cleanup(Storage(Cur)), local_height) = Answers_of(Cur, local_height)

(***************************************************************************)
(* Properties of the order of ingest                                       *)
(***************************************************************************)
\* <<P, S, n, A, v>>: output n of P pays v to A and S spends it
ParentsAndSpenders ==
  {x \in TxIds \X TxIds \X (0..1) \X Addrs \X (1..5) :
     /\ x[3] + 1 <= Len(Tx[x[1]].outputs)
     /\ Tx[x[1]].outputs[x[3] + 1] = TxOut(x[4], x[5])
     /\ <<x[1], x[3]>> \in Outpoints(x[2])}

\* the index that add_transaction builds
IndexOf_state(s) ==
  [txi |-> s.txi, txo |-> s.txo, spent_outpoints |-> s.spent_outpoints,
   history_local |-> s.history_local]

\* add_transaction(first), then add_transaction(second), both with
\* allow_unrelated = true
AddBoth(s, first, second) ==
  add_transaction(add_transaction(s, first, TRUE).s, second, TRUE).s

\* S spends, in the index, the coin P pays to A
Linked(s, x) ==
  /\ x[4] \in DOMAIN Get(s.txi, x[2], EmptyDict)
  /\ <<<<x[1], x[3]>>, x[5]>> \in s.txi[x[2]][x[4]]
  /\ x[2] \in Get(s.history_local, x[4], {})

\* both calls store their transaction, in either order
BothStored(s, x) ==
  /\ {x[1], x[2]} \subseteq AddBoth(s, x[1], x[2]).transactions
  /\ {x[1], x[2]} \subseteq AddBoth(s, x[2], x[1]).transactions

\* C24: for a parent P paying a wallet address A and a child S spending
\* that output, add_transaction(S) then add_transaction(P) produces the
\* same txi, txo, spent_outpoints and history_local as add_transaction(P)
\* then add_transaction(S); in both orders txi[S][A] contains (P:n, value)
\* and S is in history_local[A].
C24_OrderIndependent ==
  \A x \in ParentsAndSpenders :
    is_mine(Cur, x[4]) =>
      /\ IndexOf_state(AddBoth(Cur, x[2], x[1])) = IndexOf_state(AddBoth(Cur, x[1], x[2]))
      /\ BothStored(Cur, x) =>
           Linked(AddBoth(Cur, x[2], x[1]), x) /\ Linked(AddBoth(Cur, x[1], x[2]), x)

\* the wallet watches A and has just stored P = T1, after S = T3, which it
\* already held: the index links S to the coin
C24_Witness ==
  /\ is_mine(Cur, "A")
  /\ last = Outcome("True", {})
  /\ {"T1", "T3"} \subseteq transactions
  /\ <<"T1", "T3", 1, "A", 5>> \in ParentsAndSpenders
  /\ Linked(Cur, <<"T1", "T3", 1, "A", 5>>)

(***************************************************************************)
(* Properties of a repeated add_transaction                                *)
(***************************************************************************)
\* the call add_transaction(t, allow_unrelated = true) in state s finds no
\* conflict, returns true, evicts nothing and leaves the index as it is
AddsNothing(s, t) ==
  /\ get_conflicting_transactions(s, t).err = None
  /\ get_conflicting_transactions(s, t).conf = {}
  /\ add_transaction(s, t, TRUE).ret = "True"
  /\ add_transaction(s, t, TRUE).removed = {}
  /\ add_transaction(s, t, TRUE).s.transactions = s.transactions
  /\ IndexOf_state(add_transaction(s, t, TRUE).s) = IndexOf_state(s)

\* C25: add_transaction is idempotent on state: calling
\* add_transaction(txid, T, allow_unrelated=true) again for a tx already in
\* transactions, with no other change in between, returns true, treats
\* txid as not conflicting with itself, and leaves transactions, txi, txo,
\* spent_outpoints and history_local identical (no duplicated txo entries,
\* no evictions).
C25_Idempotent ==
  \A t \in TxIds :
    add_transaction(Cur, t, TRUE).ret = "True" =>
      AddsNothing(add_transaction(Cur, t, TRUE).s, t)

\* T1, which pays the watched address A and whose coin T3 spends, has just
\* been added and a second add changes nothing
C25_Witness ==
  /\ last = Outcome("True", {})
  /\ {"T1", "T3"} \subseteq transactions
  /\ "A" \in DOMAIN txo["T1"] /\ Len(txo["T1"]["A"]) = 1
  /\ "A" \in DOMAIN txi["T3"]
  /\ AddsNothing(Cur, "T1")

(***************************************************************************)
(* Properties of remove_transaction                                        *)
(***************************************************************************)
\* the entries <<prevout_hash, prevout_n, spender>> of spent_outpoints
SpendEntries(s) ==
  UNION {{<<h, n, s.spent_outpoints[h][n]>> : n \in DOMAIN s.spent_outpoints[h]} :
         h \in DOMAIN s.spent_outpoints}

\* t is nowhere in the index of s
Absent(s, t) ==
  /\ t \notin s.transactions
  /\ t \notin DOMAIN s.txi
  /\ t \notin DOMAIN s.txo
  /\ \A a \in DOMAIN s.history_local : t \notin s.history_local[a]
  /\ \A e \in SpendEntries(s) : e[3] # t

\* from s to r every transaction but t keeps its place
OthersKept(s, r, t) ==
  /\ r.transactions \ {t} = s.transactions \ {t}
  /\ DOMAIN r.txi \ {t} = DOMAIN s.txi \ {t}
  /\ DOMAIN r.txo \ {t} = DOMAIN s.txo \ {t}
  /\ {e \in SpendEntries(r) : e[3] # t} = {e \in SpendEntries(s) : e[3] # t}

\* C26: remove_transaction(txid) removes exactly txid and does not recurse:
\* afterwards txid is absent from transactions, txi, txo and every
\* history_local set and is the spender in no spent_outpoints entry, while
\* every other txid (the spenders of txid's outputs included) keeps its
\* membership in transactions, txi and txo, and the spent_outpoints entries
\* whose spender is another tx are unchanged.
C26_RemovesExactly ==
  \A t \in TxIds :
    /\ remove_transaction(Cur, t).err = None
    /\ Absent(remove_transaction(Cur, t), t)
    /\ OthersKept(Cur, remove_transaction(Cur, t), t)

(***************************************************************************)
(* Properties of the spender graph                                         *)
(***************************************************************************)
\* the edges of the spender graph: from prev_txid to spending_txid
SpenderEdges(s) == {<<e[1], e[3]>> : e \in SpendEntries(s)}

\* the paths of at most 2^k edges
RECURSIVE Paths(_, _)
Paths(edges, k) ==
  IF k = 0 THEN edges
  ELSE LET p == Paths(edges, k - 1)
       IN p \cup {<<w[1][1], w[2][2]>> : w \in {z \in p \X p : z[1][2] = z[2][1]}}

\* every path of the graph: it has at most 8 nodes
AllPaths(s) == Paths(SpenderEdges(s), 3)

Acyclic(s) == \A p \in AllPaths(s) : p[1] # p[2]

\* C27: in every state reachable through add_transaction and
\* remove_transaction the spender graph induced by spent_outpoints (edge
\* from prev_txid to spending_txid) is acyclic, so
\* get_depending_transactions(txid) and the eviction cascade of
\* add_transaction terminate: they return the transactions a path leads to.
C27_Acyclic ==
  /\ Acyclic(Cur)
  /\ \A t \in TxIds :
       get_depending_transactions(spent_outpoints, t).children
         = {p[2] : p \in {q \in AllPaths(Cur) : q[1] = t}}

\* T2 has just evicted T1 together with T3, which spent T1's coin
C27_Witness ==
  /\ last = Outcome("True", {"T1", "T3"})
  /\ "T2" \in transactions
  /\ <<"X", "T2">> \in SpenderEdges(Cur)

\* ------------------------------------------------------------------
\* Conflict precedence over the whole eviction set
\* ------------------------------------------------------------------

\* the transactions add_transaction(t, allow_unrelated) takes out of
\* `transactions`
Evicted(t, allow_unrelated) ==
  (transactions \ add_transaction(Cur, t, allow_unrelated).s.transactions) \ {t}

\* u may not be evicted for t: u is confirmed and t is not, or u is in the
\* mempool and t is local
Outranks(u, t) ==
  \/ Height(u) > 0 /\ Height(t) <= 0
  \/ Height(u) \in {TX_HEIGHT_UNCONFIRMED, TX_HEIGHT_UNCONF_PARENT}
       /\ Height(t) = TX_HEIGHT_LOCAL

\* C28: in every state, add_transaction(t) removes from `transactions` no
\* transaction of height > 0 when t has height <= 0 and no transaction of
\* height 0 or -1 when t is local, the descendants of the directly
\* conflicting transactions included.
C28_Precedence ==
  \A t \in TxIds, allow_unrelated \in BOOLEAN :
    \A u \in Evicted(t, allow_unrelated) : ~Outranks(u, t)

\* the same for the directly conflicting transactions only
C28_DirectOnly ==
  \A t \in TxIds, allow_unrelated \in BOOLEAN :
    \A u \in Evicted(t, allow_unrelated) \cap Conflicting(t) : ~Outranks(u, t)

\* ------------------------------------------------------------------
\* Every spent coin of an address was received by it
\* ------------------------------------------------------------------

\* the sum of the effects on address a of the transactions txs
RECURSIVE DeltasOf(_, _, _)
DeltasOf(s, a, txs) ==
  IF txs = {} THEN 0
  ELSE LET t == CHOOSE x \in txs : TRUE
       IN get_tx_delta(s, t, a) + DeltasOf(s, a, txs \ {t})

\* every <<outpoint, v>> of txi[t][a], t in the history of a, is an output of
\* value v that get_addr_io(a) reports as received
SentWasReceived(s, a) ==
  \A t \in Get(s.history_local, a, {}) :
    \A i \in Get(Get(s.txi, t, EmptyDict), a, {}) :
      /\ i[1] \in DOMAIN get_addr_io(s, a).received
      /\ get_addr_io(s, a).received[i[1]][2] = i[2]

\* the balance of a is the sum of the effects of its transactions
BalanceIsDeltas(s, a) ==
  \A local_height \in {0, MaxHeight} :
    BalanceSum(get_addr_balance(s, a, local_height))
      = DeltasOf(s, a, Get(s.history_local, a, {}))

\* C29: in every state the calls of add_transaction and remove_transaction
\* reach, for every address a every outpoint get_addr_io(a) reports as sent
\* is reported as received with the same value, get_addr_utxo(a) does not
\* fail, and the sum of the per-transaction deltas of a is c + u + x of a.
C29_SentReceived ==
  \A a \in Addrs :
    /\ SentWasReceived(Cur, a)
    /\ get_addr_utxo(Cur, a).err = None
    /\ BalanceIsDeltas(Cur, a)

\* ------------------------------------------------------------------
\* A dropped transaction leaves the index as it was
\* ------------------------------------------------------------------

\* the index and the prevout-hash keys save_transactions persists are the
\* same in s and r
SameIndex(s, r) ==
  /\ r.transactions = s.transactions
  /\ r.txi = s.txi
  /\ r.txo = s.txo
  /\ r.history_local = s.history_local
  /\ r.spent_outpoints = s.spent_outpoints
  /\ DOMAIN Storage(r).spent_outpoints = DOMAIN Storage(s).spent_outpoints

\* C30: in every state, an add_transaction(t) that returns false leaves
\* transactions, txi, txo, history_local and spent_outpoints, the set of its
\* prevout-hash keys included, exactly as before the call.
C30_DropKeepsState ==
  \A t \in TxIds, allow_unrelated \in BOOLEAN :
    add_transaction(Cur, t, allow_unrelated).ret = "False"
      => SameIndex(Cur, add_transaction(Cur, t, allow_unrelated).s)

\* ------------------------------------------------------------------
\* The heights after a history of the server was received
\* ------------------------------------------------------------------

\* the height of get_tx_height(t) in s
HeightIn(s, t) ==
  IF t \in DOMAIN s.verified_tx THEN s.verified_tx[t].height
  ELSE IF t \in DOMAIN s.unverified_tx THEN s.unverified_tx[t]
  ELSE TX_HEIGHT_LOCAL

\* r holds hist as the history of addr, and every transaction of hist at the
\* height hist gives it
Follows(r, addr, hist) ==
  /\ addr \in DOMAIN r.history
  /\ r.history[addr] = hist
  /\ \A i \in 1..Len(hist) : HeightIn(r, hist[i][1]) = hist[i][2]

\* C31: in every state, after receive_history_callback(addr, hist, fees) has
\* returned, history[addr] = hist and get_tx_height(txid).height = h for
\* every (txid, h) of hist, whatever txid was before the call (verified,
\* unverified or local) and whether or not the wallet holds its body.
C31_HistoryHeights ==
  \A addr \in IngestAddrs, hist \in VerifyHists :
    Cur.err = None /\ receive_history_callback(Cur, addr, hist, EmptyDict).err = None
      => Follows(receive_history_callback(Cur, addr, hist, EmptyDict), addr, hist)

\* the same for the transactions of hist that are not verified before the
\* call or are in the local history of addr
C31_Tracked ==
  \A addr \in IngestAddrs, hist \in VerifyHists :
    /\ Cur.err = None
    /\ receive_history_callback(Cur, addr, hist, EmptyDict).err = None
    /\ \A i \in 1..Len(hist) :
         \/ hist[i][1] \notin DOMAIN verified_tx
         \/ hist[i][1] \in Get(history_local, addr, {})
    => Follows(receive_history_callback(Cur, addr, hist, EmptyDict), addr, hist)

====
